---- MODULE Spec2Model ----
(***************************************************************************)
(* A model of the 32-bit x86 kernel in rust_kernel/kernel_core: physical   *)
(* frame allocator, two-level page tables, per-space virtual allocator,    *)
(* task creation, trap entry / return, the round-robin scheduler with its  *)
(* stack switch, and the int 0x80 system calls.                            *)
(*                                                                         *)
(* Representation of machine words.  A u32 is kept as the integer with the *)
(* same 32-bit two's complement bit pattern: values below 2^31 are         *)
(* themselves, 0x8000_0000..0xFFFF_FFFF are v - 2^32.  Hence 0xFFFFFFFF    *)
(* (usize::MAX, the forged error code -1) is the integer -1.               *)
(*                                                                         *)
(* Representation of memory.  Physical memory is a sparse map              *)
(*   frame address -> (byte offset -> non-zero word).                      *)
(* Page directories and page tables are kept per address space as sparse   *)
(* maps of raw entries; the 32768 identity entries written by              *)
(* setup_identity_mapping are represented by the flag idmap plus the       *)
(* explicit entries that overwrite them.  Loads and stores of the modelled *)
(* data pages (kernel stacks, per-space bitmap, shared pages) go through   *)
(* the page tables of the space loaded in CR3.  The kernel's statics and   *)
(* its page-table frames are read and written directly.                    *)
(***************************************************************************)
EXTENDS Integers, Sequences, FiniteSets, TLC

(***************************************************************************)
(* Program constants                                                       *)
(***************************************************************************)
PAGE_SIZE == 4096
PAGE_PRESENT == 1
PAGE_WRITE == 2
PAGE_USER == 4
BITMAP_SIZE == 31712
BASE_ALLOCATOR == 4194304
KERNEL_PHYS_WINDOW_BASE == 0
KERNEL_PHYS_WINDOW_SIZE == 134217728
KERNEL_VMEM_BASE == 322371584
\* 0xdead_0000
KERNEL_VMEM_ALLOCATOR_BITMAP == -559087616
KERNEL_STACK_SIZE == 1
USER_STACK_SIZE == 1
MAX_TASKS == 10
MAX_SHARED_MAPPINGS == 10
\* usize::MAX = 0xFFFFFFFF on the 32-bit target
USIZE_MAX == -1
\* size_of::<InterruptContext>() : 8 registers, nr, err, 5 frame words
SIZEOF_InterruptContext == 60
TWO32_MOD_TEN == 6

(***************************************************************************)
(* Machine-word helpers                                                    *)
(***************************************************************************)
MaxInt32 == 2147483647

\* wrapping 32-bit addition of a non-negative b to a (u32::wrapping_add)
Add32(a, b) ==
    IF a >= 0 /\ b > MaxInt32 - a
    THEN ((a - MaxInt32) - 1) + ((b - MaxInt32) - 1)
    ELSE a + b

\* unsigned comparison of two u32 values
UGt(a, b) ==
    IF (a >= 0) = (b >= 0) THEN a > b ELSE a < 0

\* unsigned remainder by a small modulus m (2^32 mod 10 = 6 is used for m = 10)
UModTen(a) ==
    IF a >= 0 THEN a % 10 ELSE ((a % 10) + TWO32_MOD_TEN) % 10

\* v >> 12 for a u32
VPage(v) ==
    IF v >= 0 THEN v \div PAGE_SIZE ELSE (v \div PAGE_SIZE) + 1048576

\* v & 0xfff
PageOff(v) == v % PAGE_SIZE

RECURSIVE BitOr(_, _)
\* bitwise or of two non-negative integers
BitOr(a, b) ==
    IF a = 0 THEN b
    ELSE IF b = 0 THEN a
    ELSE (IF (a % 2 = 1) \/ (b % 2 = 1) THEN 1 ELSE 0)
         + 2 * BitOr(a \div 2, b \div 2)

\* bit n of a non-negative integer
Bit(a, n) == (a \div (2 ^ n)) % 2

\* the member of a set of one value: Only({e : x \in {v}}) is e with x bound
\* to the value of v, which is computed once
Only(S) == CHOOSE r \in S : TRUE

\* wrapping 32-bit subtraction of a non-negative b from a
\* (u32::wrapping_sub; a build with overflow checks panics instead where
\* the result wraps)
Sub32(a, b) ==
    IF a < 0 /\ b > (a + MaxInt32) + 1
    THEN ((((a + MaxInt32) + 1) - b) + MaxInt32) + 1
    ELSE a - b

\* Option<T> : None is <<>>, Some(x) is <<x>>
None == << >>
Some(x) == << x >>

\* sparse maps
EmptyMap == << >>
Get(f, x) == IF x \in DOMAIN f THEN f[x] ELSE 0
Put(f, x, v) ==
    Only({[y \in (DOMAIN g) \cup {a} |-> IF y = a THEN v ELSE g[y]] :
            g \in {f}, a \in {x}})
\* a store to memory keeps the map free of zero words
Store(f, x, v) ==
    Only({IF v = 0 THEN [y \in (DOMAIN g) \ {a} |-> g[y]] ELSE Put(g, a, v) :
            g \in {f}, a \in {x}})

(***************************************************************************)
(* The machine state k threaded through the kernel code is a record of the *)
(* values of all variables (see Cur below).  The memory-management code    *)
(* uses the fields                                                         *)
(*   bitmap : the set of indices i with ALLOCATOR_BITMAP[i] = 1            *)
(*   spaces : page directory address -> [pde, pte, idmap]                  *)
(*   mem    : frame address -> sparse content                              *)
(*   cr3    : the page directory loaded in CR3                             *)
(*   panic  : "" or the message of the panic that was raised               *)
(*   issued : live, the frames alloc_phys returned and free_phys has not   *)
(*            taken back since; twice, the frames alloc_phys returned      *)
(*            while they were live (observation)                           *)
(***************************************************************************)
Panicked(k) == k.panic # ""
Raise(k, msg) == [k EXCEPT !.panic = msg]

\* variant: the frames lie above the identity window
Issue_high(k, i) ==
    [k |-> [k EXCEPT !.bitmap = @ \cup {i},
                     !.issued.live =
                         @ \cup {KERNEL_PHYS_WINDOW_SIZE + i * PAGE_SIZE}],
     page |-> KERNEL_PHYS_WINDOW_SIZE + i * PAGE_SIZE]
\* the frame of index i is handed out
Issue(k, i) ==
    [k |-> [k EXCEPT !.bitmap = @ \cup {i},
                     !.issued =
                         [live |-> @.live \cup {BASE_ALLOCATOR + i * PAGE_SIZE},
                          twice |-> @.twice
                                      \cup ({BASE_ALLOCATOR + i * PAGE_SIZE}
                                              \cap @.live)]],
     page |-> BASE_ALLOCATOR + i * PAGE_SIZE]

\* variant: the frame after as many frames as are in use
alloc_phys_count(k) ==
    IF Panicked(k) THEN [k |-> k, page |-> 0]
    ELSE IF Cardinality(k.bitmap) >= BITMAP_SIZE
    THEN [k |-> Raise(k, "Out of memory"), page |-> 0]
    ELSE Issue(k, Cardinality(k.bitmap))
\* variant: the first frame, whatever its byte says
alloc_phys_base(k) ==
    IF Panicked(k) THEN [k |-> k, page |-> 0]
    ELSE Issue(k, 0)
\* PhysMem::alloc_phys : lowest clear byte; the set has at most
\* Cardinality(bitmap) members, so a clear byte exists at or below it
alloc_phys(k) ==
    IF Panicked(k) THEN [k |-> k, page |-> 0]
    ELSE Only({IF free = {}
               THEN [k |-> Raise(k, "Out of memory"), page |-> 0]
               ELSE Issue(k, CHOOSE j \in free : \A l \in free : j <= l)
               : free \in {{n \in 0 .. Cardinality(k.bitmap) :
                              n \notin k.bitmap /\ n < BITMAP_SIZE}}})

\* PhysMem::alloc_phys_zeroed
alloc_phys_zeroed(k) ==
    Only({IF Panicked(r.k) THEN r
          ELSE [k |-> [r.k EXCEPT !.mem =
                          [f \in (DOMAIN @) \ {r.page} |-> @[f]]],
                page |-> r.page]
          : r \in {alloc_phys(k)}})

\* variant: the byte is cleared without the check that it is set
free_phys_unchecked(k, addr) ==
    IF Panicked(k) THEN k
    ELSE IF PageOff(addr) # 0
    THEN Raise(k, "Freeing non-aligned address : {:#x}")
    ELSE IF VPage(Sub32(addr, BASE_ALLOCATOR)) >= BITMAP_SIZE
            \/ UGt(BASE_ALLOCATOR, addr)
    THEN Raise(k, "Freeing a page outside the bounds of the allocator : {:#x}")
    ELSE [k EXCEPT !.bitmap = @ \ {VPage(Sub32(addr, BASE_ALLOCATOR))},
                   !.issued.live = @ \ {addr}]
\* variant: the checks are made and the byte stays set
free_phys_keep(k, addr) ==
    IF Panicked(k) THEN k
    ELSE IF PageOff(addr) # 0
    THEN Raise(k, "Freeing non-aligned address : {:#x}")
    ELSE IF VPage(Sub32(addr, BASE_ALLOCATOR)) >= BITMAP_SIZE
            \/ UGt(BASE_ALLOCATOR, addr)
    THEN Raise(k, "Freeing a page outside the bounds of the allocator : {:#x}")
    ELSE IF VPage(Sub32(addr, BASE_ALLOCATOR)) \notin k.bitmap
    THEN Raise(k, "Freeing non-allocated page : {:#x} at index {:#x}")
    ELSE [k EXCEPT !.issued.live = @ \ {addr}]
\* PhysMem::free_phys; ALLOCATOR_BITMAP[index] is bounds-checked, which is
\* what stops index = BITMAP_SIZE, let through by `index > BITMAP_SIZE`
free_phys(k, addr) ==
    IF Panicked(k) THEN k
    ELSE IF PageOff(addr) # 0
    THEN Raise(k, "Freeing non-aligned address : {:#x}")
    ELSE Only({
           IF index > BITMAP_SIZE \/ UGt(BASE_ALLOCATOR, addr)
           THEN Raise(k, "Freeing a page outside the bounds of the allocator : {:#x}")
           ELSE IF ~ (index < BITMAP_SIZE)
           THEN Raise(k, "index out of bounds")
           ELSE IF index \notin k.bitmap
           THEN Raise(k, "Freeing non-allocated page : {:#x} at index {:#x}")
           ELSE [k EXCEPT !.bitmap = @ \ {index},
                          !.issued.live = @ \ {addr}]
           : index \in {VPage(Sub32(addr, BASE_ALLOCATOR))}})

\* PhysMem::translate : the window check; TRUE when the access is allowed.
\* The sum is a u32 addition of the release build: it wraps
PhysMem_translate_ok(paddr, size) ==
    ~ UGt(Add32(paddr, size), KERNEL_PHYS_WINDOW_SIZE)

\* PhysMem::translate : the virtual address of size bytes at paddr
PhysMem_translate(k, paddr, size) ==
    IF ~ PhysMem_translate_ok(paddr, size)
    THEN [k |-> Raise(k, "Trying to translate paddr"), addr |-> 0]
    ELSE [k |-> k, addr |-> Add32(paddr, KERNEL_PHYS_WINDOW_BASE)]

\* PageDirectoryEntry::get_paddr / PageTableEntry::get_paddr
get_paddr(raw) == raw - PageOff(raw)

\* the raw PTE stored for virtual page vp in a space
GetPTE(sp, vp) ==
    IF vp \in DOMAIN sp.pte THEN sp.pte[vp]
    ELSE IF sp.idmap /\ vp < KERNEL_PHYS_WINDOW_SIZE \div PAGE_SIZE
         THEN BitOr(vp * PAGE_SIZE, BitOr(PAGE_PRESENT, PAGE_WRITE))
    ELSE 0

\* PageDirectory::new
PageDirectory_new(k) ==
    Only({IF Panicked(r.k) THEN r
          ELSE [k |-> [r.k EXCEPT !.spaces =
                          Put(@, r.page, [pde |-> EmptyMap, pte |-> EmptyMap,
                                          idmap |-> FALSE])],
                page |-> r.page]
          : r \in {alloc_phys_zeroed(k)}})

\* variant: a page table is installed on every call
map_raw_always(k, pgd, vaddr, raw) ==
    IF Panicked(k) THEN k
    ELSE Only({IF Panicked(r.k) THEN r.k
               ELSE [r.k EXCEPT
                       !.spaces[pgd].pde =
                           Put(@, VPage(vaddr) \div 1024,
                               BitOr(r.page,
                                     BitOr(PAGE_PRESENT,
                                           BitOr(PAGE_WRITE, PAGE_USER)))),
                       !.spaces[pgd].pte = Put(@, VPage(vaddr), raw)]
               : r \in {alloc_phys_zeroed(k)}})
\* PageDirectory::map_raw
map_raw(k, pgd, vaddr, raw) ==
    IF Panicked(k) THEN k
    ELSE IF ~ PhysMem_translate_ok(pgd + (VPage(vaddr) \div 1024) * 4, 4)
    THEN Raise(k, "Trying to translate paddr")
    ELSE Only({
           IF entry % 2 = 0
           \* the PDE is not present: a zeroed page table r.page is installed
           THEN Only({IF Panicked(r.k) THEN r.k
                      ELSE [r.k EXCEPT
                              !.spaces[pgd].pde =
                                  Put(@, pgd_index,
                                      BitOr(r.page,
                                            BitOr(PAGE_PRESENT,
                                                  BitOr(PAGE_WRITE,
                                                        PAGE_USER)))),
                              !.spaces[pgd].pte = Put(@, VPage(vaddr), raw)]
                      : r \in {alloc_phys_zeroed(k)}})
           ELSE IF ~ PhysMem_translate_ok(
                       get_paddr(entry) + (VPage(vaddr) % 1024) * 4, 4)
           THEN Raise(k, "Trying to translate paddr")
           ELSE [k EXCEPT !.spaces[pgd].pte = Put(@, VPage(vaddr), raw)]
           : pgd_index \in {VPage(vaddr) \div 1024},
             entry \in {Get(k.spaces[pgd].pde, VPage(vaddr) \div 1024)}})

\* variant: no frame is allocated and no entry is written
map_lazy(k, pgd, vaddr, size, write, user) == k
RECURSIVE map(_, _, _, _, _, _)
\* PageDirectory::map : one fresh frame per page of [vaddr, vaddr + size)
map(k, pgd, vaddr, size, write, user) ==
    IF Panicked(k) \/ size <= 0 THEN k
    ELSE Only({map(k1, pgd, vaddr + PAGE_SIZE, size - PAGE_SIZE, write, user)
               : k1 \in {Only({map_raw(r.k, pgd, vaddr,
                                       BitOr(r.page,
                                         BitOr(PAGE_PRESENT,
                                           BitOr(IF write THEN PAGE_WRITE
                                                 ELSE 0,
                                                 IF user THEN PAGE_USER
                                                 ELSE 0))))
                               : r \in {alloc_phys(k)}})}})

\* the hardware page walk of virtual page vp in the space loaded in cr3
Walk(k, cr3, vp) ==
    Only({[present |-> (pde % 2 = 1) /\ (pte % 2 = 1),
           write |-> (Bit(pde, 1) = 1) /\ (Bit(pte, 1) = 1),
           user |-> (Bit(pde, 2) = 1) /\ (Bit(pte, 2) = 1),
           frame |-> get_paddr(pte)]
          : pte \in {GetPTE(k.spaces[cr3], vp)},
            pde \in {Get(k.spaces[cr3].pde, vp \div 1024)}})

\* the content of a frame; RAM that was never written reads as zero
MemOf(k, fr) == IF fr \in DOMAIN k.mem THEN k.mem[fr] ELSE EmptyMap

\* a load of the word at vaddr through the space loaded in k.cr3
Load(k, vaddr) ==
    Get(MemOf(k, Walk(k, k.cr3, VPage(vaddr)).frame), PageOff(vaddr))

\* a store of word v at vaddr through the space loaded in k.cr3
StoreAt(k, vaddr, v) ==
    Only({[k0 EXCEPT !.mem = IF words = EmptyMap
                             THEN [f \in (DOMAIN @) \ {fr} |-> @[f]]
                             ELSE Put(@, fr, words)]
          : <<k0, fr, words>> \in
              {Only({<<k1, fr1, Store(MemOf(k1, fr1), PageOff(a), v)>>
                     : <<k1, a, fr1>> \in
                         {Only({<<k2, a2, Walk(k2, k2.cr3, VPage(a2)).frame>>
                                : k2 \in {k}, a2 \in {vaddr}})}})}})

RECURSIVE StoreFrom(_, _, _, _)
\* store the words w[i], w[i + 1], ... at ascending addresses
StoreFrom(k, vaddr, w, i) ==
    Only({IF j > Len(ws) THEN k0
          ELSE StoreFrom(StoreAt(k0, a + 4 * (j - 1), ws[j]), a, ws, j + 1)
          : k0 \in {k}, a \in {vaddr}, ws \in {w}, j \in {i}})

\* store the words ws at ascending addresses from vaddr
StoreWords(k, vaddr, ws) == StoreFrom(k, vaddr, ws, 1)

RECURSIVE setup_identity_tables(_, _, _)
\* the page tables that setup_identity_mapping makes map_raw allocate: the
\* first page of every 4 MiB block finds its PDE absent
setup_identity_tables(k, pgd, i) ==
    IF Panicked(k)
       \/ i >= (KERNEL_PHYS_WINDOW_SIZE \div PAGE_SIZE) \div 1024
    THEN k
    ELSE Only({setup_identity_tables(k1, pgd, i + 1)
               : k1 \in {map_raw(k, pgd,
                                 KERNEL_PHYS_WINDOW_BASE + i * 1024 * PAGE_SIZE,
                                 BitOr(i * 1024 * PAGE_SIZE,
                                       BitOr(PAGE_PRESENT, PAGE_WRITE)))}})

\* setup_identity_mapping : map_raw(paddr, paddr | PRESENT | WRITE) for every
\* page of the first 128 MiB; every entry written earlier in that range is
\* overwritten
setup_identity_mapping(k, pgd) ==
    Only({IF Panicked(k1) THEN k1
          ELSE [k1 EXCEPT
                  !.spaces[pgd].idmap = TRUE,
                  !.spaces[pgd].pte =
                      [vp \in {p \in DOMAIN @ :
                                 p >= KERNEL_PHYS_WINDOW_SIZE \div PAGE_SIZE}
                          |-> @[vp]]]
          : k1 \in {setup_identity_tables(k, pgd, 0)}})

\* VirtMem::new : a page directory, a zeroed bitmap frame mapped at the fixed
\* bitmap address
VirtMem_new(k) ==
    Only({Only({IF Panicked(r2.k) THEN [k |-> r2.k, page |-> 0]
                ELSE [k |-> map_raw(r2.k, r1.page,
                                    KERNEL_VMEM_ALLOCATOR_BITMAP,
                                    BitOr(r2.page,
                                          BitOr(PAGE_PRESENT, PAGE_WRITE))),
                      page |-> r1.page]
                : r2 \in {alloc_phys_zeroed(r1.k)}})
          : r1 \in {PageDirectory_new(k)}})

\* the lowest index of a run of npages clear bytes in a bitmap given as the
\* map of its set bytes (windows(npages).position(all zero))
FindWindow(bytes, npages) ==
    Only({IF good = {} THEN -1
          ELSE CHOOSE i \in good : \A j \in good : i <= j
          : good \in {{i \in {0} \cup {j + 1 : j \in DOMAIN bytes} :
                         /\ i + npages <= PAGE_SIZE
                         /\ \A j \in i .. (i + npages - 1) :
                                j \notin DOMAIN bytes}}})

RECURSIVE SetBytes(_, _, _, _)
\* bytes[from .. from + n - 1] = v
SetBytes(bytes, from, n, v) ==
    IF n <= 0 THEN bytes
    ELSE Only({SetBytes(b, from + 1, n - 1, v)
               : b \in {Store(bytes, from, v)}})

\* variant: the pages are mapped and the bytes of the bitmap are left clear
alloc_virt_pages_nomark(k, pgd, npages, write, user) ==
    IF Panicked(k) THEN [k |-> k, addr |-> 0]
    ELSE Only({
           IF alloc_index < 0
           THEN [k |-> Raise(k, "Couldn't find enough free contiguous virtual pages"),
                 addr |-> 0]
           ELSE [k |-> map(k, pgd, KERNEL_VMEM_BASE + alloc_index * PAGE_SIZE,
                           npages * PAGE_SIZE, write, user),
                 addr |-> KERNEL_VMEM_BASE + alloc_index * PAGE_SIZE]
           : alloc_index \in
               {FindWindow(MemOf(k, Walk(k, k.cr3,
                                         VPage(KERNEL_VMEM_ALLOCATOR_BITMAP)
                                        ).frame), npages)}})
\* variant: the bitmap read and written is the one of the kernel space
alloc_virt_pages_kernel(k, pgd, npages, write, user) ==
    IF Panicked(k) THEN [k |-> k, addr |-> 0]
    ELSE Only({
           IF alloc_index < 0
           THEN [k |-> Raise(k, "Couldn't find enough free contiguous virtual pages"),
                 addr |-> 0]
           ELSE [k |-> map([k EXCEPT !.mem =
                              Put(@, fr, SetBytes(MemOf(k, fr), alloc_index,
                                                  npages, 1))],
                           pgd, KERNEL_VMEM_BASE + alloc_index * PAGE_SIZE,
                           npages * PAGE_SIZE, write, user),
                 addr |-> KERNEL_VMEM_BASE + alloc_index * PAGE_SIZE]
           : <<fr, alloc_index>> \in
               {Only({<<f, FindWindow(MemOf(k, f), npages)>>
                      : f \in {Walk(k, CHOOSE p \in DOMAIN k.spaces :
                                          \A q \in DOMAIN k.spaces : p <= q,
                                    VPage(KERNEL_VMEM_ALLOCATOR_BITMAP)
                                   ).frame}})}})
\* VirtMem::alloc_virt_pages on the space pgd; the bitmap is the page at the
\* fixed bitmap address of the space loaded in cr3
alloc_virt_pages(k, pgd, npages, write, user) ==
    IF Panicked(k) THEN [k |-> k, addr |-> 0]
    ELSE Only({
           IF ~ w.present
           THEN [k |-> Raise(k, "Page fault"), addr |-> 0]
           ELSE Only({
                  IF alloc_index < 0
                  THEN [k |-> Raise(k, "Couldn't find enough free contiguous virtual pages"),
                        addr |-> 0]
                  ELSE [k |-> Only({map(k1, pgd,
                                        KERNEL_VMEM_BASE
                                          + alloc_index * PAGE_SIZE,
                                        npages * PAGE_SIZE, write, user)
                                    : k1 \in {[k EXCEPT !.mem =
                                                 Put(@, w.frame,
                                                     SetBytes(MemOf(k, w.frame),
                                                              alloc_index,
                                                              npages, 1))]}}),
                        addr |-> KERNEL_VMEM_BASE + alloc_index * PAGE_SIZE]
                  : alloc_index \in {FindWindow(MemOf(k, w.frame), npages)}})
           : w \in {Walk(k, k.cr3, VPage(KERNEL_VMEM_ALLOCATOR_BITMAP))}})

\* PageDirectory::translate(vaddr) : the Mapping of vaddr, filled without a
\* look at the present bits.  The table of a PDE that was never written is
\* read at physical address 0, in memory the kernel never initialises: low
\* is the word found there.
translate(k, pgd, vaddr, low) ==
    Only({IF ~ PhysMem_translate_ok(pgd + (VPage(vaddr) \div 1024) * 4, 4)
             \/ ~ PhysMem_translate_ok(
                      get_paddr(pde) + (VPage(vaddr) % 1024) * 4, 4)
          THEN [k |-> Raise(k, "Trying to translate paddr"),
                ret |-> [pde |-> None, pte |-> None, page |-> None]]
          ELSE [k |-> k,
                ret |-> [pde |-> Some(pgd + (VPage(vaddr) \div 1024) * 4),
                         pte |-> Some(get_paddr(pde)),
                         page |-> Some(get_paddr(
                                    IF pde = 0 THEN low
                                    ELSE GetPTE(k.spaces[pgd],
                                                VPage(vaddr))))]]
          : pde \in {Get(k.spaces[pgd].pde, VPage(vaddr) \div 1024)}})

RECURSIVE free_backing(_, _, _, _, _)
\* the loop of free_virt_pages over the pages of the range
free_backing(k, pgd, vaddr, npages, low) ==
    IF Panicked(k) \/ npages <= 0 THEN k
    ELSE Only({free_backing(k1, pgd, vaddr + PAGE_SIZE, npages - 1, low)
               : k1 \in {Only({IF Panicked(r.k) THEN r.k
                                ELSE free_phys(r.k, r.ret.page[1])
                                : r \in {translate(k, pgd, vaddr, low)}})}})

\* variant: the bitmap bytes are cleared and the frames stay allocated
free_virt_pages_keep(k, pgd, addr, npages, low) ==
    Only({[k EXCEPT !.mem = Put(@, fr, SetBytes(MemOf(k, fr),
                                                VPage(Sub32(addr,
                                                            KERNEL_VMEM_BASE)),
                                                npages, 0))]
          : fr \in {Walk(k, k.cr3, VPage(KERNEL_VMEM_ALLOCATOR_BITMAP)).frame}})
\* VirtMem::free_virt_pages on the space pgd; the slice of the bitmap is
\* bounds-checked before the loop
free_virt_pages(k, pgd, addr, npages, low) ==
    IF Panicked(k) THEN k
    ELSE Only({
           IF ~ w.present THEN Raise(k, "Page fault")
           ELSE IF bitmap_index + npages > PAGE_SIZE
           THEN Raise(k, "range end index out of range")
           ELSE Only({IF Panicked(k1) THEN k1
                      ELSE [k1 EXCEPT !.mem =
                              Put(@, w.frame,
                                  SetBytes(MemOf(k1, w.frame), bitmap_index,
                                           npages, 0))]
                      : k1 \in {free_backing(k, pgd, addr, npages, low)}})
           : w \in {Walk(k, k.cr3, VPage(KERNEL_VMEM_ALLOCATOR_BITMAP))},
             bitmap_index \in {VPage(Sub32(addr, KERNEL_VMEM_BASE))}})

(***************************************************************************)
(* Link-time symbols.  The linker script is not part of the sources; the   *)
(* addresses below stand for symbols of the kernel image, which lies in    *)
(* the identity window below BASE_ALLOCATOR.                               *)
(***************************************************************************)
resume_from_intr == 1048832
\* the instruction after `call interrupt_handler` in the stub of vector nr
vec_interrupt_ret(nr) == 1049088 + nr
task1 == 1056768
task2 == 1057024
\* a third user entry point, standing for arbitrary user code
probe == 1057280
\* "hello from userland task1!\n", "hello from userland task2!\n", "task 2 : "
HELLO1_PTR == 1060864
HELLO2_PTR == 1060928
TASK2_PTR == 1060992
\* user data: the byte 0xff, the bytes "hello\n"
BAD_UTF8_PTR == 1061056
HELLO_PTR == 1061120
\* an address that no page table maps
UNMAPPED_PTR == 805306368

HELLO1 == <<104, 101, 108, 108, 111, 32, 102, 114, 111, 109, 32, 117, 115,
            101, 114, 108, 97, 110, 100, 32, 116, 97, 115, 107, 49, 33, 10>>
HELLO2 == <<104, 101, 108, 108, 111, 32, 102, 114, 111, 109, 32, 117, 115,
            101, 114, 108, 97, 110, 100, 32, 116, 97, 115, 107, 50, 33, 10>>
TASK2_PREFIX == <<116, 97, 115, 107, 32, 50, 32, 58, 32>>
HELLO == <<104, 101, 108, 108, 111, 10>>

\* the bytes of the image at the data symbols
ImageData ==
    (HELLO1_PTR :> HELLO1) @@ (HELLO2_PTR :> HELLO2)
    @@ (TASK2_PTR :> TASK2_PREFIX) @@ (BAD_UTF8_PTR :> <<255>>)
    @@ (HELLO_PTR :> HELLO)

\* selectors
KERNEL_CS == 8
KERNEL_DS == 16
USER_CS == 27
USER_DS == 35
\* EFLAGS.IF
EFLAGS_IF == 512

(***************************************************************************)
(* Logging: print! takes the serial port out of PERIPHERALS, formats, and  *)
(* puts it back.  A log entry is [text, val, bytes]: the literal text of   *)
(* the format string, the number formatted into it, the bytes of a string  *)
(* argument.                                                               *)
(***************************************************************************)
Entry(text, val, bytes) == [text |-> text, val |-> val, bytes |-> bytes]

\* the panic handler: println!("[PANIC] {}", info) then cpu::halt().
\* Peripherals::lock_serial unwraps PERIPHERALS.serial: when the port is
\* already taken the unwrap panics inside the panic handler, which enters
\* the panic handler again, without end and without output.
panic(k, msg) ==
    IF k.serial
    THEN [k EXCEPT !.panic = msg,
                   !.log = @ \o << Entry("[PANIC] ", 0, << >>),
                                   Entry(msg, 0, << >>),
                                   Entry("halted!", 0, << >>) >>,
                   !.mode = "halt"]
    ELSE [k EXCEPT !.panic = msg, !.mode = "panic_loop"]

\* println!(text, val) with arguments that cannot panic
println(k, text, val) ==
    IF k.serial THEN [k EXCEPT !.log = Append(@, Entry(text, val, << >>))]
    ELSE panic(k, "called Option::unwrap() on a None value")

\* a panic raised by the memory-management code reaches the panic handler
Escalate(k) == IF Panicked(k) /\ k.mode \notin {"halt", "panic_loop"}
               THEN panic(k, k.panic) ELSE k

Dead(k) == k.mode \in {"halt", "panic_loop", "wild"}

(***************************************************************************)
(* Tasks                                                                   *)
(***************************************************************************)
\* variant: EAX and ECX are stored in each other's place
ContextWords_swapped(c) ==
    << c.edi, c.esi, c.ebp, c.esp0, c.ebx, c.edx, c.eax, c.ecx,
       c.nr, c.err, c.eip, c.cs, c.eflags, c.esp, c.ss >>

\* the words of an InterruptContext in memory order: regs (pusha order),
\* nr, err, frame
ContextWords(c) ==
    << c.edi, c.esi, c.ebp, c.esp0, c.ebx, c.edx, c.ecx, c.eax,
       c.nr, c.err, c.eip, c.cs, c.eflags, c.esp, c.ss >>

\* variant: the frame carries the kernel's selectors
FakeContext_ring0(code_addr, user_sp) ==
    [edi |-> 0, esi |-> 0, ebp |-> 0, esp0 |-> 0, ebx |-> 0, edx |-> 0,
     ecx |-> 0, eax |-> 0, nr |-> 0, err |-> 0,
     eip |-> code_addr, cs |-> KERNEL_CS, eflags |-> EFLAGS_IF,
     esp |-> user_sp, ss |-> KERNEL_DS]
\* InterruptContext::default() with the frame Task::new fills in
FakeContext(code_addr, user_sp) ==
    [edi |-> 0, esi |-> 0, ebp |-> 0, esp0 |-> 0, ebx |-> 0, edx |-> 0,
     ecx |-> 0, eax |-> 0, nr |-> 0, err |-> 0,
     eip |-> code_addr, cs |-> USER_CS, eflags |-> EFLAGS_IF,
     esp |-> user_sp, ss |-> USER_DS]

\* variant: the last empty slot is taken
empty_spot_last(tasks) ==
    Only({IF e = {} THEN -1 ELSE CHOOSE i \in e : \A j \in e : i >= j
          : e \in {{i \in DOMAIN tasks : tasks[i] = None}}})
\* TASKS.iter().position(|x| x.is_none())
empty_spot(tasks) ==
    Only({IF e = {} THEN -1 ELSE CHOOSE i \in e : \A j \in e : i <= j
          : e \in {{i \in DOMAIN tasks : tasks[i] = None}}})

\* Task::new(name, code_addr)
Task_new(k0, name, code_addr) ==
    IF Len(name) > 16 THEN panic(k0, "Task name len > 16")
    ELSE
    \* read from the last binder upwards: v is the new space, ks and us the
    \* two stacks, k5 the state after the code page is mapped, k6 the state
    \* after the initial kernel stack is written
    Only({Only({Only({Only({Only({
      IF Panicked(k5) THEN Escalate(k5)
      ELSE Only({
             \* TASKS[spot] = Some(task) ; switch_vspace(&orig_vspace)
             IF spot < 0 THEN panic(k6, "Too many running tasks")
             ELSE [k6 EXCEPT
                     !.tasks[spot] = Some([name |-> name,
                                           vspace |-> v.page,
                                           kernel_sp |-> kernel_sp,
                                           user_sp |-> user_sp]),
                     !.kernel_stack[spot] = ks.addr,
                     !.cr3 = k0.cr3]
             : <<k6, spot>> \in
                 {Only({<<st, empty_spot(st.tasks)>>
                        \* the fake context, the address of resume_from_intr,
                        \* three padding words and the user data selector,
                        \* pushed in this order
                        : st \in {StoreWords(k5, kernel_sp,
                                     << USER_DS, 0, 0, 0, resume_from_intr >>
                                     \o ContextWords(
                                            FakeContext(code_addr,
                                                        user_sp)))}})}})
      : k5 \in {map_raw(println(println(us.k, "user_stack : {:#x}", us.addr),
                                "user sp : {:#x}", user_sp),
                        v.page, code_addr,
                        BitOr(code_addr, BitOr(PAGE_USER, PAGE_PRESENT)))}})
      : kernel_sp \in {ks.addr + KERNEL_STACK_SIZE * PAGE_SIZE
                         - SIZEOF_InterruptContext - 4 - 3 * 4 - 4},
        user_sp \in {us.addr + USER_STACK_SIZE * PAGE_SIZE}})
      : us \in {alloc_virt_pages(println(ks.k, "kernel_stack : {:#x}",
                                         ks.addr),
                                 v.page, USER_STACK_SIZE, TRUE, TRUE)}})
      \* switch_vspace(&vspace)
      : ks \in {Only({alloc_virt_pages(IF Panicked(k1) THEN k1
                                       ELSE [k1 EXCEPT !.cr3 = v.page],
                                       v.page, KERNEL_STACK_SIZE, TRUE, FALSE)
                      : k1 \in {setup_identity_mapping(v.k, v.page)}})}})
      : v \in {VirtMem_new(k0)}})

(***************************************************************************)
(* Trap entry and return                                                   *)
(***************************************************************************)
\* variant: every gate is a trap gate
type_attr_trap(nr) == IF nr = 128 THEN 239 ELSE 143
\* IDT_ENTRIES[nr].type_attr as set by interrupts_init
type_attr(nr) == IF nr = 128 THEN 238 ELSE 142

\* the gate type in the low four bits: 14 is an interrupt gate, which clears
\* EFLAGS.IF on entry; 15 would be a trap gate, which leaves it set
GateClearsIF(nr) == type_attr(nr) % 16 = 14

\* vectors for which define_int_handler is given has_error_code = 1
has_error_code(nr) == nr \in {8, 10, 11, 12, 13, 14, 17}

\* The CPU delivers vector nr and the stub vec_interrupt_nr runs up to its
\* call: from ring 3 the stack is TSS.ESP0 and SS:ESP are pushed first; then
\* EFLAGS, CS, EIP, the error code (forged as -1 by the stub when the CPU
\* pushes none), the vector and the pusha block.  ret_eip is the EIP the CPU
\* saves, err the error code of the CPU.
TrapEntry(k, nr, ret_eip, err) ==
    Only({[k1 EXCEPT
             !.mode = "kernel",
             !.esp = ctx,
             !.handlers = Append(@, nr),
             !.atTrap = [k.regs EXCEPT !.eip = ret_eip],
             !.regs = [k.regs EXCEPT
                         !.eip = vec_interrupt_ret(nr),
                         !.cs = KERNEL_CS,
                         !.ss = KERNEL_DS,
                         !.esp = ctx,
                         !.eflags = IF GateClearsIF(nr)
                                    THEN @ - (Bit(@, 9) * EFLAGS_IF)
                                    ELSE @]]
          : <<ctx, k1>> \in
              {Only({<<sp, StoreWords(k, sp,
                         SubSeq(ContextWords(
                                    [edi |-> k.regs.edi, esi |-> k.regs.esi,
                                     ebp |-> k.regs.ebp, esp0 |-> sp + 32,
                                     ebx |-> k.regs.ebx, edx |-> k.regs.edx,
                                     ecx |-> k.regs.ecx, eax |-> k.regs.eax,
                                     nr |-> nr,
                                     err |-> IF has_error_code(nr) THEN err
                                             ELSE -1,
                                     eip |-> ret_eip, cs |-> k.regs.cs,
                                     eflags |-> k.regs.eflags,
                                     esp |-> k.regs.esp, ss |-> k.regs.ss]),
                                1, IF k.regs.cs % 4 = 3 THEN 15 ELSE 13))>>
                     : sp \in {IF k.regs.cs % 4 = 3 THEN k.esp0 - 8 - 52
                               ELSE k.esp - 52}})}})

\* add esp, 8 in resume_from_intr: the vector and the error code
ResumeSkip == 8

\* resume_from_intr with ESP = sp: popa, add esp 8, iretd
resume(k, sp) ==
    Only({IF r.cs \notin {KERNEL_CS, USER_CS}
             \/ (r.cs = USER_CS /\ r.ss # USER_DS)
          THEN [k EXCEPT !.mode = "wild"]
          ELSE [k EXCEPT !.regs = r,
                         !.mode = IF r.cs = USER_CS THEN "user"
                                  ELSE "kernel",
                         !.esp = IF r.cs = USER_CS THEN 0 ELSE r.esp,
                         !.handlers = IF @ = << >> THEN @
                                      ELSE SubSeq(@, 1, Len(@) - 1)]
          : r \in {Only({[edi |-> Load(k, sp), esi |-> Load(k, sp + 4),
                          ebp |-> Load(k, sp + 8), ebx |-> Load(k, sp + 16),
                          edx |-> Load(k, sp + 20), ecx |-> Load(k, sp + 24),
                          eax |-> Load(k, sp + 28),
                          eip |-> Load(k, f), cs |-> cs,
                          eflags |-> Load(k, f + 8),
                          esp |-> IF cs % 4 = 3 THEN Load(k, f + 12)
                                  ELSE f + 12,
                          ss |-> IF cs % 4 = 3 THEN Load(k, f + 16)
                                 ELSE KERNEL_DS]
                         : <<f, cs>> \in
                             {<<sp + 32 + ResumeSkip,
                                Load(k, sp + 32 + ResumeSkip + 4)>>}})}})

(***************************************************************************)
(* Scheduler                                                               *)
(***************************************************************************)
\* the words that the compiled schedule() keeps on the stack between its
\* return address and the DS word pushed by switch_to: the three words that
\* Task::new pushes as padding for the epilogue
SCHEDULE_SAVED_WORDS == 3

\* variant: the offset is one word short
Esp0For_short(kernel_sp) == kernel_sp + 16 + SIZEOF_InterruptContext
\* the value switch_to writes to TSS.ESP0
Esp0For(kernel_sp) == kernel_sp + 20 + SIZEOF_InterruptContext

\* the number of occupied slots
NumTasks(tasks) == Cardinality({i \in DOMAIN tasks : tasks[i] # None})

\* the last n elements of a sequence
LastN(q, n) == IF Len(q) <= n THEN q ELSE SubSeq(q, Len(q) - n + 1, Len(q))

\* variant: the search restarts at slot 0
NextTaskIdx_first(tasks, idx, fuel) == IF tasks[0] # None THEN 0 ELSE -1
RECURSIVE NextTaskIdx(_, _, _)
\* the loop of schedule(): CURRENT_TASK_IDX = (CURRENT_TASK_IDX + 1) %
\* MAX_TASKS until the slot is occupied; -1 when `fuel` iterations found none
NextTaskIdx(tasks, idx, fuel) ==
    Only({IF fuel = 0 THEN -1
          ELSE IF tasks[i] # None THEN i
          ELSE NextTaskIdx(tasks, i, fuel - 1)
          : i \in {UModTen(Add32(idx, 1))}})

\* variant: ESP is stored on every switch
SavesPrev_always(prev, next) == TRUE
\* TRUE when switch_to stores ESP into prev.kernel_sp (cmp ecx, edx / je)
SavesPrev(prev, next) == prev.vspace # next.vspace

\* switch_to(prev, next) entered with ESP = sp, followed by the return of
\* schedule() and its callers into resume_from_intr
switch_to(k, prev_slot, next_slot, sp) ==
    Only({Only({
      \* epilogue of schedule(): the saved words, then ret
      IF Load(k5, next.kernel_sp + 4 + SCHEDULE_SAVED_WORDS * 4)
           \in {resume_from_intr} \cup {vec_interrupt_ret(nr) : nr \in 0 .. 255}
      THEN resume(k5, next.kernel_sp + 4 + SCHEDULE_SAVED_WORDS * 4 + 4)
      ELSE [k5 EXCEPT !.mode = "wild"]
      : k5 \in
          \* pop eax ; mov ds, ax ...
          {Only({[k4 EXCEPT !.ds = Load(k4, next.kernel_sp)]
                 : k4 \in
                     {[\* TSS.update_esp0 ; mov eax, ds ; push eax
                       StoreAt([k EXCEPT !.esp0 = Esp0For(next.kernel_sp)],
                               sp - 4, k.ds)
                         EXCEPT
                           \* mov dword ptr [edi], esp
                           !.tasks[prev_slot][1].kernel_sp =
                               IF SavesPrev(prev, next) THEN sp - 4 ELSE @,
                           \* mov cr3, edx ; mov esp, next.kernel_sp
                           !.cr3 = next.vspace]}})}})
      : prev \in {k.tasks[prev_slot][1]}, next \in {k.tasks[next_slot][1]}})

\* schedule() entered with ESP = sp (the return address is at sp)
schedule(k, sp) ==
    Only({
      IF k.tasks[prev_slot] = None
      THEN panic(k, "called Option::unwrap() on a None value")
      ELSE Only({
             IF next_slot < 0 THEN [k EXCEPT !.mode = "wild"]
             \* prologue: the callee-saved registers; their values are
             \* restored by the epilogue and overwritten by popa, they are
             \* stored as 0
             ELSE Only({switch_to(k1, prev_slot, next_slot,
                                  sp - SCHEDULE_SAVED_WORDS * 4)
                        : k1 \in {[StoreWords(k,
                                              sp - SCHEDULE_SAVED_WORDS * 4,
                                              <<0, 0, 0>>)
                                     EXCEPT !.idx = next_slot,
                                            !.switched =
                                                LastN(Append(@, next_slot),
                                                      NumTasks(k.tasks))]}})
             : next_slot \in {NextTaskIdx(k.tasks, k.idx, MAX_TASKS)}})
      : prev_slot \in {IF k.idx = USIZE_MAX THEN 0 ELSE k.idx}})

\* variant: the handler returns to the interrupted task
handle_timer_intr_return(k) == resume(k, k.esp)

\* Pic::notify_eoi(irq) : the end-of-interrupt command, to the master PIC
\* for the IRQs 0 to 7
Pic_notify_eoi(k, irq) == IF irq < 8 THEN [k EXCEPT !.eoi = @ + 1] ELSE k

\* variant: the command is written after schedule(), by the handler
\* invocation that the switch returns into; a task that has not run yet
\* has none
handle_timer_intr_late(k) ==
    Only({IF Panicked(k2) \/ k2.mode # "user" \/ k.saved[k2.idx] = None
          THEN k2 ELSE Pic_notify_eoi(k2, 0)
          : k2 \in {Only({schedule(k1, k.esp - 4)
                          : k1 \in {StoreAt(k, k.esp - 4,
                                            vec_interrupt_ret(32))}})}})
\* handle_timer_intr, called by interrupt_handler for vector 0x20;
\* the stub's call pushed its return address below the context
handle_timer_intr(k) ==
    Only({schedule(Pic_notify_eoi(k1, 0), k.esp - 4)
          : k1 \in {StoreAt(k, k.esp - 4, vec_interrupt_ret(32))}})

(***************************************************************************)
(* System calls                                                            *)
(***************************************************************************)
Cont(b) == b >= 128 /\ b <= 191

RECURSIVE from_utf8_ok(_)
\* core::str::from_utf8(buf).is_ok()
from_utf8_ok(bytes) ==
    Only({
      IF b = << >> THEN TRUE
      ELSE IF b[1] < 128 THEN from_utf8_ok(Tail(b))
      ELSE IF b[1] >= 194 /\ b[1] <= 223
      THEN Len(b) >= 2 /\ Cont(b[2]) /\ from_utf8_ok(SubSeq(b, 3, Len(b)))
      ELSE IF b[1] >= 224 /\ b[1] <= 239
      THEN /\ Len(b) >= 3 /\ Cont(b[2]) /\ Cont(b[3])
           /\ (b[1] = 224 => b[2] >= 160)
           /\ (b[1] = 237 => b[2] <= 159)
           /\ from_utf8_ok(SubSeq(b, 4, Len(b)))
      ELSE IF b[1] >= 240 /\ b[1] <= 244
      THEN /\ Len(b) >= 4 /\ Cont(b[2]) /\ Cont(b[3]) /\ Cont(b[4])
           /\ (b[1] = 240 => b[2] >= 144)
           /\ (b[1] = 244 => b[2] <= 143)
           /\ from_utf8_ok(SubSeq(b, 5, Len(b)))
      ELSE FALSE
      : b \in {bytes}})

\* the bytes of core::slice::from_raw_parts(buffer, size) in the image
BufferBytes(buffer, size) ==
    IF buffer \in DOMAIN ImageData /\ size <= Len(ImageData[buffer])
    THEN SubSeq(ImageData[buffer], 1, size)
    ELSE << >>

\* a page fault taken by kernel code: the CPU pushes the frame on the
\* current stack, the stub of vector 14 calls interrupt_handler, and
\* handle_page_fault panics
kernel_page_fault(k, sp) ==
    Only({panic(k1, "Page fault @{:#x}")
          : k1 \in {[TrapEntry([k EXCEPT !.esp = sp], 14, 0, 0)
                       EXCEPT !.atTrap = k.atTrap]}})

\* variant: the call returns to the task
sys_exit_return(k) == k
\* sys_exit
sys_exit(k) == panic(k, "exit syscall")

\* sys_write: print!("{}", from_utf8(buf).expect(..)); the argument is
\* evaluated after lock_serial has taken the port
sys_write(k, buffer, size) ==
    IF ~ k.serial
    THEN panic(k, "called Option::unwrap() on a None value")
    ELSE IF ~ (\/ size = 0
               \/ /\ Walk(k, k.cr3, VPage(buffer)).present
                  /\ Walk(k, k.cr3, VPage(buffer + size - 1)).present)
    THEN kernel_page_fault([k EXCEPT !.serial = FALSE], k.esp - 4)
    ELSE Only({IF ~ from_utf8_ok(buf)
               THEN panic([k EXCEPT !.serial = FALSE],
                          "couldn't translate to uft8")
               ELSE [k EXCEPT !.log = Append(@, Entry("{}", 0, buf))]
               : buf \in {BufferBytes(buffer, size)}})

\* variant: the handler stores a return value in ctx.regs.eax
sys_print_number_ret(k, num) ==
    StoreAt(println(k, "{}", num), k.esp + 28, 0)
\* variant: only the low bit of the number is printed
sys_print_number_lowbit(k, num) == println(k, "{}", num % 2)
\* sys_print_number
sys_print_number(k, num) == println(k, "{}", num)

\* the check at the head of sys_mmap_shared
\* (id < 0 never holds for an unsigned id)
invalid_shared_id(id) == UGt(id, MAX_SHARED_MAPPINGS)

\* variant: the array has one more element
index_in_bounds_incl(id) == id >= 0 /\ id <= MAX_SHARED_MAPPINGS
\* the bounds check of the indexing MAPPINGS[id]
index_in_bounds(id) == id >= 0 /\ id < MAX_SHARED_MAPPINGS

\* variant: the entry is never found populated
MappingsGet_empty(m, id) == None
\* MAPPINGS[id]
MappingsGet(m, id) == IF id \in DOMAIN m THEN m[id] ELSE None

\* sys_mmap_shared
sys_mmap_shared(k, vaddr, id) ==
    IF invalid_shared_id(id)
    THEN panic(k, "invalid shared mapping id : {}")
    ELSE IF ~ index_in_bounds(id)
    THEN panic(k, "index out of bounds")
    ELSE Only({Only({
           IF Panicked(k2) THEN Escalate(k2)
           ELSE println(k2, "Mapped phys page {:#x} at {:#x}", r.page)
           : k2 \in {map_raw(\* MAPPINGS[id] = Some(page)
                             IF Panicked(r.k) THEN r.k
                             ELSE [r.k EXCEPT
                                     !.mappings = Put(@, id, Some(r.page))],
                             k.cr3, vaddr,
                             BitOr(r.page,
                                   BitOr(PAGE_PRESENT,
                                         BitOr(PAGE_USER, PAGE_WRITE))))}})
           : r \in {Only({IF e = None THEN alloc_phys_zeroed(k)
                          ELSE [k |-> k, page |-> e[1]]
                          : e \in {MappingsGet(k.mappings, id)}})}})

\* variant: the match is on the low byte of ctx.regs.eax
syscall_arm_low(eax) ==
    IF eax % 256 = 1 THEN "sys_exit"
    ELSE IF eax % 256 = 2 THEN "sys_write"
    ELSE IF eax % 256 = 3 THEN "sys_print_number"
    ELSE IF eax % 256 = 10 THEN "sys_mmap_shared"
    ELSE "unimplemented"
\* the arm of the match in handle_syscall taken for ctx.regs.eax
syscall_arm(eax) ==
    IF eax = 1 THEN "sys_exit"
    ELSE IF eax = 2 THEN "sys_write"
    ELSE IF eax = 3 THEN "sys_print_number"
    ELSE IF eax = 10 THEN "sys_mmap_shared"
    ELSE "unimplemented"

\* handle_syscall(ctx), ctx at k.esp
handle_syscall(k) ==
    Only({Only({
      IF c.arm = "sys_exit" THEN sys_exit(k1)
      ELSE IF c.arm = "sys_write" THEN sys_write(k1, c.ecx, c.edx)
      ELSE IF c.arm = "sys_print_number" THEN sys_print_number(k1, c.ecx)
      ELSE IF c.arm = "sys_mmap_shared" THEN sys_mmap_shared(k1, c.ecx, c.edx)
      ELSE panic(k1, "Unimplemented syscall : {:#x}")
      : k1 \in {[StoreAt(k, k.esp - 4, vec_interrupt_ret(128))
                   EXCEPT !.dispatched =
                              Some([eax |-> c.eax, arm |-> c.arm])]}})
      : c \in {Only({[eax |-> eax, arm |-> syscall_arm(eax),
                      ecx |-> Load(k, k.esp + 24),
                      edx |-> Load(k, k.esp + 20)]
                     : eax \in {Load(k, k.esp + 28)}})}})

\* interrupt_handler(ctx) and the return of the stub through
\* resume_from_intr
interrupt_handler(k) ==
    Only({IF nr = 32 \/ Dead(r) THEN r ELSE resume(r, k.esp)
          : <<nr, r>> \in
              {Only({<<n, IF n = 8 THEN panic(k, "double fault !")
                          ELSE IF n = 14 THEN panic(k, "Page fault @{:#x}")
                          ELSE IF n = 32 THEN handle_timer_intr(k)
                          ELSE IF n = 128 THEN handle_syscall(k)
                          ELSE panic(k, "Interrupt {}, error code {:#x}")>>
                     : n \in {Load(k, k.esp + 32)}})}})

(***************************************************************************)
(* User code.  EIP is the entry address plus the index of the instruction. *)
(*   task1 : 0 load mmap_shared(0x1000_0000, 0)   1 int 0x80               *)
(*           2 load write(hello1)                 3 int 0x80               *)
(*           4 ctr += 1; *0x1000_0000 = ctr  (ctr is kept in EBX)          *)
(*   task2 : 0 load mmap_shared(0x2000_0000, 0)   1 int 0x80               *)
(*           2 load write(hello2)                 3 int 0x80               *)
(*           4 tmp = *0x2000_0000; if tmp != num { num = tmp;              *)
(*             load write("task 2 : ") }          5 int 0x80               *)
(*           6 load print_number(num)             7 int 0x80   8 jmp 4     *)
(*           (num is kept in EBX, tmp in ESI)                              *)
(*   probe : 0 load any system call of ProbeCalls, or fault                *)
(*           1 int 0x80                           2 jmp 0                  *)
(***************************************************************************)
SHARED1 == 268435456
SHARED2 == 536870912
\* a page of the identity window
IDENT_PAGE == 8388608

EntryFns == {task1, task2, probe}

TaskName(code_addr) ==
    IF code_addr = task1
    THEN <<102, 105, 114, 115, 116, 95, 116, 97, 115, 107>>
    ELSE IF code_addr = task2
    THEN <<115, 101, 99, 111, 110, 100, 95, 116, 97, 115, 107>>
    ELSE <<112, 114, 111, 98, 101>>

\* the system calls (eax, ecx, edx) the probe code issues
ProbeCalls ==
    { <<1, 0, 0>>, <<2, HELLO_PTR, 6>>, <<2, BAD_UTF8_PTR, 1>>,
      <<2, UNMAPPED_PTR, 1>>, <<3, 42, 0>>,
      <<10, SHARED1, 0>>, <<10, SHARED2, 1>>, <<10, IDENT_PAGE, 1>>,
      <<10, SHARED1, 10>>, <<10, SHARED1, -1>>,
      <<258, HELLO_PTR, 6>>, <<266, SHARED2, 0>>, <<7, 0, 0>> }

\* the exceptions the probe code raises, with the CPU's error code
ProbeFaults == { <<0, 0>>, <<13, 0>>, <<14, 4>> }

\* bounds of the model
MaxBootTasks == 2
MaxProbeCalls == 2
MaxCtr == 2
MaxMemOps == 4

Prog(eip) ==
    IF eip >= task1 /\ eip < task1 + 16 THEN task1
    ELSE IF eip >= task2 /\ eip < task2 + 16 THEN task2
    ELSE probe

Pc(eip) == eip - Prog(eip)

\* the instruction at eip is int 0x80
AtInt80(eip) ==
    \/ Prog(eip) = task1 /\ Pc(eip) \in {1, 3}
    \/ Prog(eip) = task2 /\ Pc(eip) \in {1, 3, 5, 7}
    \/ Prog(eip) = probe /\ Pc(eip) = 1

\* a user-mode access to vaddr is allowed by the page tables
UserAccessOk(k, vaddr, write) ==
    LET w == Walk(k, k.cr3, VPage(vaddr))
    IN  w.present /\ w.user /\ (write => w.write)

LoadCall(k, eax, ecx, edx) ==
    [k EXCEPT !.regs.eax = eax, !.regs.ecx = ecx, !.regs.edx = edx,
              !.regs.eip = @ + 1]

(***************************************************************************)
(* State                                                                   *)
(***************************************************************************)
VARIABLES
    ALLOCATOR_BITMAP,  \* set of the indices whose byte is 1
    spaces,            \* the page directories and their page tables
    mem,               \* the content of the data frames
    TASKS,
    CURRENT_TASK_IDX,
    MAPPINGS,          \* the static of sys_mmap_shared
    TSS_esp0,
    serial,            \* PERIPHERALS.serial.is_some()
    log,               \* what was written to the serial port
    cr3,
    regs,              \* the registers of the CPU
    ds,                \* the data segment registers
    mode,              \* "boot", "user", "kernel", "halt", "panic_loop", "wild"
    esp,               \* in mode "kernel": the address of the context
    handlers,          \* the vectors of the handlers entered and not left
    panicMsg,          \* the message of the panic raised, or ""
    kernel_stack,      \* slot -> the kernel stack base Task::new allocated
    atTrap,            \* the user registers at the last trap entry
    saved,             \* slot -> the registers at its last preemption
    switched,          \* the slots chosen by the last schedule() calls
    dispatched,        \* the last match of handle_syscall
    nsys,              \* the number of probe or memory actions so far
    issued,            \* the frames alloc_phys returned and free_phys has
                       \* not taken back (an observation, not kernel data)
    call,              \* the last direct call of the memory interface and
                       \* what it returned (an observation)
    eoi                \* the end-of-interrupt commands written to the
                       \* master PIC since IRQ 0 was last delivered

vars == << ALLOCATOR_BITMAP, spaces, mem, TASKS, CURRENT_TASK_IDX, MAPPINGS,
           TSS_esp0, serial, log, cr3, regs, ds, mode, esp, handlers,
           panicMsg, kernel_stack, atTrap, saved, switched, dispatched,
           nsys, issued, call, eoi >>

\* the state as the record the kernel code works on
Cur ==
    [bitmap |-> ALLOCATOR_BITMAP, spaces |-> spaces, mem |-> mem,
     tasks |-> TASKS, idx |-> CURRENT_TASK_IDX, mappings |-> MAPPINGS,
     esp0 |-> TSS_esp0, serial |-> serial, log |-> log, cr3 |-> cr3,
     regs |-> regs, ds |-> ds, mode |-> mode, esp |-> esp,
     handlers |-> handlers, panic |-> panicMsg,
     kernel_stack |-> kernel_stack, atTrap |-> atTrap, saved |-> saved,
     switched |-> switched, dispatched |-> dispatched, nsys |-> nsys,
     issued |-> issued, call |-> call, eoi |-> eoi]

Commit(k) ==
    /\ ALLOCATOR_BITMAP' = k.bitmap
    /\ spaces' = k.spaces
    /\ mem' = k.mem
    /\ TASKS' = k.tasks
    /\ CURRENT_TASK_IDX' = k.idx
    /\ MAPPINGS' = k.mappings
    /\ TSS_esp0' = k.esp0
    /\ serial' = k.serial
    /\ log' = k.log
    /\ cr3' = k.cr3
    /\ regs' = k.regs
    /\ ds' = k.ds
    /\ mode' = k.mode
    /\ esp' = k.esp
    /\ handlers' = k.handlers
    /\ panicMsg' = k.panic
    /\ kernel_stack' = k.kernel_stack
    /\ atTrap' = k.atTrap
    /\ saved' = k.saved
    /\ switched' = k.switched
    /\ dispatched' = k.dispatched
    /\ nsys' = k.nsys
    /\ issued' = k.issued
    /\ call' = k.call
    /\ eoi' = k.eoi

\* the top of the boot stack
BOOT_ESP == 1114112

ZeroRegs ==
    [edi |-> 0, esi |-> 0, ebp |-> 0, ebx |-> 0, edx |-> 0, ecx |-> 0,
     eax |-> 0, eip |-> 0, cs |-> KERNEL_CS, eflags |-> 0, esp |-> BOOT_ESP,
     ss |-> KERNEL_DS]

\* the machine before rust_main creates the kernel address space
PowerOn ==
    [bitmap |-> {}, spaces |-> EmptyMap, mem |-> EmptyMap,
     tasks |-> [i \in 0 .. MAX_TASKS - 1 |-> None], idx |-> USIZE_MAX,
     mappings |-> [i \in 0 .. MAX_SHARED_MAPPINGS - 1 |-> None],
     esp0 |-> 0, serial |-> TRUE, log |-> << >>, cr3 |-> 0,
     regs |-> ZeroRegs, ds |-> KERNEL_DS, mode |-> "boot", esp |-> BOOT_ESP,
     handlers |-> << >>, panic |-> "",
     kernel_stack |-> [i \in 0 .. MAX_TASKS - 1 |-> 0],
     atTrap |-> ZeroRegs,
     saved |-> [i \in 0 .. MAX_TASKS - 1 |-> None],
     switched |-> << >>, dispatched |-> None, nsys |-> 0,
     issued |-> [live |-> {}, twice |-> {}], call |-> None, eoi |-> 0]

\* rust_main up to enable_paging(): the kernel address space with the
\* identity window, loaded in CR3
Booted ==
    Only({[setup_identity_mapping(v.k, v.page) EXCEPT !.cr3 = v.page]
          : v \in {VirtMem_new(PowerOn)}})

\* the variables hold the state b
InitAt(b) ==
    /\ ALLOCATOR_BITMAP = b.bitmap
    /\ spaces = b.spaces
    /\ mem = b.mem
    /\ TASKS = b.tasks
    /\ CURRENT_TASK_IDX = b.idx
    /\ MAPPINGS = b.mappings
    /\ TSS_esp0 = b.esp0
    /\ serial = b.serial
    /\ log = b.log
    /\ cr3 = b.cr3
    /\ regs = b.regs
    /\ ds = b.ds
    /\ mode = b.mode
    /\ esp = b.esp
    /\ handlers = b.handlers
    /\ panicMsg = b.panic
    /\ kernel_stack = b.kernel_stack
    /\ atTrap = b.atTrap
    /\ saved = b.saved
    /\ switched = b.switched
    /\ dispatched = b.dispatched
    /\ nsys = b.nsys
    /\ issued = b.issued
    /\ call = b.call
    /\ eoi = b.eoi

Init == \E b \in {Booted} : InitAt(b)

(***************************************************************************)
(* Actions                                                                 *)
(***************************************************************************)
\* rust_main: Task::new(name, code_addr)
TaskNew(code_addr) ==
    /\ mode = "boot"
    /\ NumTasks(TASKS) < MaxBootTasks
    /\ \E c \in {Cur} :
          \E k \in {Task_new(c, TaskName(code_addr), code_addr)} : Commit(k)

\* rust_main: the first schedule(); the call pushed its return address
BootSchedule ==
    /\ mode = "boot"
    /\ \E c \in {Cur} : \E k \in {schedule(c, BOOT_ESP - 4)} : Commit(k)

\* the running task, in task1 or task2, executes one instruction that does
\* not trap
TaskStep ==
    /\ mode = "user"
    /\ Prog(regs.eip) \in {task1, task2}
    /\ \E c \in {Cur}, p \in {Prog(regs.eip)}, pc \in {Pc(regs.eip)} :
          \/ /\ pc = 0
             /\ Commit(LoadCall(c, 10,
                                IF p = task1 THEN SHARED1 ELSE SHARED2, 0))
          \/ /\ pc = 2
             /\ Commit(LoadCall(c, 2,
                                IF p = task1 THEN HELLO1_PTR ELSE HELLO2_PTR,
                                27))
          \/ /\ p = task1 /\ pc = 4
             /\ regs.ebx < MaxCtr
             /\ UserAccessOk(c, SHARED1, TRUE)
             /\ \E k \in {StoreAt([c EXCEPT !.regs.ebx = @ + 1],
                                   SHARED1, regs.ebx + 1)} : Commit(k)
          \/ /\ p = task2 /\ pc = 4
             /\ UserAccessOk(c, SHARED2, FALSE)
             /\ \E tmp \in {Load(c, SHARED2)} :
                   /\ tmp # regs.ebx
                   /\ Commit(LoadCall([c EXCEPT !.regs.esi = tmp,
                                                !.regs.ebx = tmp],
                                      2, TASK2_PTR, 9))
          \/ /\ p = task2 /\ pc = 6
             /\ Commit(LoadCall(c, 3, regs.ebx, regs.edx))
          \/ /\ p = task2 /\ pc = 8
             /\ Commit([c EXCEPT !.regs.eip = task2 + 4])

\* the running task, in the probe code, executes one instruction that does
\* not trap
ProbeStep ==
    /\ mode = "user"
    /\ Prog(regs.eip) = probe
    /\ \E k \in {Cur} :
          \/ /\ Pc(regs.eip) = 0
             /\ nsys < MaxProbeCalls
             /\ \E c \in ProbeCalls :
                   Commit(LoadCall([k EXCEPT !.nsys = @ + 1],
                                   c[1], c[2], c[3]))
          \/ /\ Pc(regs.eip) = 2
             /\ Commit([k EXCEPT !.regs.eip = probe])

\* the running task executes int 0x80: the CPU enters the gate of vector
\* 128 and the stub runs up to its call of interrupt_handler
Int80 ==
    /\ mode = "user"
    /\ AtInt80(regs.eip)
    /\ \E c \in {Cur} :
          \E k \in {TrapEntry(c, 128, regs.eip + 1, 0)} : Commit(k)

\* the running task raises a CPU exception: its shared-memory access finds
\* no user mapping, or the probe code faults
UserFault ==
    /\ mode = "user"
    /\ \E c \in {Cur}, p \in {Prog(regs.eip)}, pc \in {Pc(regs.eip)} :
          \/ /\ p \in {task1, task2} /\ pc = 4
             /\ ~ UserAccessOk(c, IF p = task1 THEN SHARED1 ELSE SHARED2,
                               p = task1)
             /\ \E k \in {TrapEntry(c, 14, regs.eip, 4)} : Commit(k)
          \/ /\ p = probe /\ pc = 0
             /\ nsys < MaxProbeCalls
             /\ \E f \in ProbeFaults :
                   \E k \in {TrapEntry([c EXCEPT !.nsys = @ + 1],
                                        f[1], regs.eip, f[2])} : Commit(k)

\* the PIT raises IRQ 0 (vector 32); the CPU takes it when EFLAGS.IF is set,
\* in user code, in kernel code and in the hlt loop of cpu::halt alike
TimerTick ==
    /\ mode \in {"user", "kernel", "halt"}
    /\ Bit(regs.eflags, 9) = 1
    /\ \E c \in {Cur} :
          \E k \in {TrapEntry(c, 32, regs.eip, 0)} :
             Commit(IF mode = "user"
                    THEN [k EXCEPT !.saved[CURRENT_TASK_IDX] = Some(regs),
                                   !.eoi = 0]
                    ELSE [k EXCEPT !.eoi = 0])

\* interrupt_handler runs for the context on top of the kernel stack, up to
\* the iretd or the halt
Handler ==
    /\ mode = "kernel"
    /\ handlers # << >>
    /\ \E c \in {Cur} : \E k \in {interrupt_handler(c)} : Commit(k)

Next ==
    \/ \E code_addr \in EntryFns : TaskNew(code_addr)
    \/ BootSchedule
    \/ TaskStep
    \/ ProbeStep
    \/ Int80
    \/ UserFault
    \/ TimerTick
    \/ Handler

Spec == Init /\ [][Next]_vars

\* The PIT keeps raising IRQ 0 and a handler entered runs to its end; the
\* timer period is much longer than an instruction, so a task that is
\* dispatched again and again executes its next instruction.
Fairness ==
    /\ WF_vars(TimerTick)
    /\ WF_vars(Handler)
    /\ \A i \in 0 .. MaxBootTasks - 1 :
          /\ SF_vars(TaskStep /\ CURRENT_TASK_IDX = i)
          /\ SF_vars(Int80 /\ CURRENT_TASK_IDX = i)

\* the kernel with tasks that run the code of userland_tasks.rs only
NextTasks ==
    \/ \E code_addr \in {task1, task2} : TaskNew(code_addr)
    \/ BootSchedule
    \/ TaskStep
    \/ Int80
    \/ TimerTick
    \/ Handler

FairSpec == Init /\ [][NextTasks]_vars /\ Fairness

(***************************************************************************)
(* The memory interface called directly.  PhysMem and VirtMem are public:  *)
(* the actions below call them in any order with arguments drawn from      *)
(* small sets, from three starting points of rust_main's memory: before    *)
(* the kernel space is created, after it is loaded, and with every frame   *)
(* of the allocator handed out.                                            *)
(***************************************************************************)
MemStarts ==
    { [PowerOn EXCEPT !.mode = "mem"],
      [Booted EXCEPT !.mode = "mem"],
      [Booted EXCEPT !.mode = "mem",
                     !.bitmap = 0 .. (BITMAP_SIZE - 1),
                     !.issued.live = {BASE_ALLOCATOR + i * PAGE_SIZE :
                                        i \in 0 .. (BITMAP_SIZE - 1)}] }

MemInit == \E b \in MemStarts : InitAt(b)

\* the frames that hold a page directory, a page table or the virtual
\* bitmap of a space
TableFrames(k) ==
    (DOMAIN k.spaces)
    \cup {get_paddr(GetPTE(k.spaces[p], VPage(KERNEL_VMEM_ALLOCATOR_BITMAP))) :
            p \in DOMAIN k.spaces}
    \cup {get_paddr(k.spaces[p].pde[i]) :
            <<p, i>> \in {<<q, j>> \in (DOMAIN k.spaces) \X (0 .. 1023) :
                            j \in DOMAIN k.spaces[q].pde}}

\* the two frames below the first one never handed out, when frames are
\* handed out in ascending order
LastFrames(k) ==
    {BASE_ALLOCATOR + i * PAGE_SIZE :
       i \in {j \in {Cardinality(k.bitmap) - 1, Cardinality(k.bitmap) - 2} :
                j >= 0}}

\* the addresses passed to free_phys: the first frames, the last frames
\* handed out, an unaligned address, addresses below and above the range.
\* A frame that holds a page table or the bitmap of a space is left alone:
\* the contents of the tables are kept in spaces, where a reuse of the frame
\* would not show.
FreePhysArgs(k) ==
    ({BASE_ALLOCATOR + i * PAGE_SIZE : i \in 0 .. 2} \cup LastFrames(k)
     \cup {BASE_ALLOCATOR + 1, BASE_ALLOCATOR - PAGE_SIZE, 0 - PAGE_SIZE,
           BASE_ALLOCATOR + BITMAP_SIZE * PAGE_SIZE,
           BASE_ALLOCATOR + (BITMAP_SIZE - 1) * PAGE_SIZE})
    \ TableFrames(k)

\* the ranges passed to free_virt_pages: the first pages of the allocator's
\* window, a page under the next page directory entry, a page below the
\* window
FreeVirtArgs ==
    {KERNEL_VMEM_BASE, KERNEL_VMEM_BASE + PAGE_SIZE,
     KERNEL_VMEM_BASE + 144 * PAGE_SIZE, KERNEL_VMEM_BASE - PAGE_SIZE}
    \X {1, 2}

\* the call has returned or panicked; op, a, n are the call and ret is what
\* it returned
Done(k, op, a, n, ret) ==
    [Escalate(k) EXCEPT !.nsys = @ + 1,
                        !.call = Some([op |-> op, a |-> a, n |-> n,
                                       ret |-> ret])]

AllocPhys ==
    /\ mode = "mem" /\ nsys < MaxMemOps
    /\ \E c \in {Cur} : \E r \in {alloc_phys(c)} :
          Commit(Done(r.k, "alloc_phys", 0, 0, r.page))

FreePhys ==
    /\ mode = "mem" /\ nsys < MaxMemOps
    /\ \E c \in {Cur} : \E addr \in FreePhysArgs(c) :
          Commit(Done(free_phys(c, addr), "free_phys", addr, 0, 0))

AllocVirtPages ==
    /\ mode = "mem" /\ nsys < MaxMemOps
    /\ cr3 # 0
    /\ \E c \in {Cur}, n \in {1, 2, PAGE_SIZE + 1}, user \in BOOLEAN :
          \E r \in {alloc_virt_pages(c, cr3, n, TRUE, user)} :
             Commit(Done(r.k, "alloc_virt_pages", 0, n, r.addr))

\* low is the word read at physical address 0 + 4 * pte_index when the page
\* directory entry of the range was never written
FreeVirtPages ==
    /\ mode = "mem" /\ nsys < MaxMemOps
    /\ cr3 # 0
    /\ \E c \in {Cur}, arg \in FreeVirtArgs :
          \E low \in {0} \cup (LastFrames(c) \ TableFrames(c)) :
             Commit(Done(free_virt_pages(c, cr3, arg[1], arg[2], low),
                         "free_virt_pages", arg[1], arg[2], 0))

\* VirtMem::map_raw on a page of the allocator's window: the entry is
\* rewritten without its flag bits, or as 0
MapRaw ==
    /\ mode = "mem" /\ nsys < MaxMemOps
    /\ cr3 # 0
    /\ \E c \in {Cur},
          vaddr \in {KERNEL_VMEM_BASE, KERNEL_VMEM_BASE + PAGE_SIZE} :
          \E raw \in {0, get_paddr(GetPTE(spaces[cr3], VPage(vaddr)))} :
             Commit(Done(map_raw(c, cr3, vaddr, raw), "map_raw", vaddr, 0,
                         raw))

MmapShared ==
    /\ mode = "mem" /\ nsys < MaxMemOps
    /\ cr3 # 0
    /\ \E c \in {Cur}, id \in {0, 1} :
          Commit(Done(sys_mmap_shared(c, SHARED1, id), "mmap_shared",
                      SHARED1, id, 0))

NextMem ==
    \/ AllocPhys
    \/ FreePhys
    \/ AllocVirtPages
    \/ FreeVirtPages
    \/ MapRaw
    \/ MmapShared

MemSpec == MemInit /\ [][NextMem]_vars

(***************************************************************************)
(* The page-table interface: translate and PhysMem::translate are called   *)
(* between calls that change the tables.                                   *)
(***************************************************************************)
MaxPageOps == 3

\* PageDirectory::translate of the current space, on pages of the
\* allocator's window, the bitmap page and a page of the identity window
Translate ==
    /\ mode = "mem" /\ nsys < MaxPageOps
    /\ cr3 # 0
    /\ \E c \in {Cur},
          vaddr \in {KERNEL_VMEM_BASE, KERNEL_VMEM_BASE + PAGE_SIZE,
                     KERNEL_VMEM_ALLOCATOR_BITMAP, BASE_ALLOCATOR},
          low \in {0, BASE_ALLOCATOR + PAGE_PRESENT} :
          \E r \in {translate(c, cr3, vaddr, low)} :
             Commit(Done(r.k, "translate", vaddr, low, r.ret))

\* PhysMem::translate on regions at both ends of the window and at the top
\* of the 32-bit range
TranslatePhys ==
    /\ mode = "mem" /\ nsys < MaxPageOps
    /\ \E c \in {Cur},
          paddr \in {0, BASE_ALLOCATOR, KERNEL_PHYS_WINDOW_SIZE - PAGE_SIZE,
                     KERNEL_PHYS_WINDOW_SIZE - 3, KERNEL_PHYS_WINDOW_SIZE,
                     0 - PAGE_SIZE, 0 - 4},
          size \in {4, PAGE_SIZE} :
          \E r \in {PhysMem_translate(c, paddr, size)} :
             Commit(Done(r.k, "PhysMem::translate", paddr, size, r.addr))

NextPage ==
    \/ nsys < MaxPageOps /\ MapRaw
    \/ nsys < MaxPageOps /\ AllocVirtPages
    \/ Translate
    \/ TranslatePhys

PageSpec == MemInit /\ [][NextPage]_vars

(***************************************************************************)
(* The allocator of virtual pages used as intended: free_virt_pages is     *)
(* called on pages that alloc_virt_pages returned and that were not freed  *)
(* since.                                                                  *)
(***************************************************************************)
FreeVirtLive ==
    /\ mode = "mem" /\ nsys < MaxMemOps
    /\ cr3 # 0
    /\ \E c \in {Cur}, arg \in FreeVirtArgs :
          /\ \A i \in 0 .. (arg[2] - 1) :
                (VPage(Sub32(arg[1], KERNEL_VMEM_BASE)) + i)
                  \in DOMAIN MemOf(c, Walk(c, cr3,
                                  VPage(KERNEL_VMEM_ALLOCATOR_BITMAP)).frame)
          /\ Commit(Done(free_virt_pages(c, cr3, arg[1], arg[2], 0),
                         "free_virt_pages", arg[1], arg[2], 0))

VirtSpec == MemInit /\ [][AllocVirtPages \/ FreeVirtLive]_vars

(***************************************************************************)
(* Task creation alone: rust_main calls Task::new any number of times,     *)
(* with names of either side of the 16-byte limit.                         *)
(***************************************************************************)
CreateTask ==
    /\ mode = "boot"
    /\ \E c \in {Cur}, code_addr \in {task1, task2}, long \in BOOLEAN :
          \E name \in {IF long
                       THEN TaskName(code_addr) \o TaskName(code_addr)
                       ELSE TaskName(code_addr)} :
             \E k \in {Task_new(c, name, code_addr)} :
                Commit([k EXCEPT !.call = Some([op |-> "Task::new",
                                                a |-> code_addr,
                                                n |-> Len(name),
                                                ret |-> 0])])

CreateSpec == Init /\ [][CreateTask]_vars

(***************************************************************************)
(* Properties                                                              *)
(***************************************************************************)
\* C1: after every switch_to, to a fresh task or to a resumed one, TSS.ESP0
\* is the top of the kernel stack of the task switched to (its base plus one
\* page) and CR3 holds that task's page directory, so that the handler of a
\* trap from ring 3 finds its context at the top of that stack.
C1_Esp0IsStackTop ==
    (switched # << >> /\ mode # "wild") =>
        /\ TSS_esp0 = kernel_stack[CURRENT_TASK_IDX]
                          + KERNEL_STACK_SIZE * PAGE_SIZE
        /\ cr3 = TASKS[CURRENT_TASK_IDX][1].vspace
        /\ (mode = "kernel" /\ Len(handlers) = 1) =>
               esp = kernel_stack[CURRENT_TASK_IDX]
                         + KERNEL_STACK_SIZE * PAGE_SIZE
                         - SIZEOF_InterruptContext

\* a task preempted earlier runs again, of two tasks, with ESP0 at its top
C1_Witness ==
    /\ mode = "user"
    /\ NumTasks(TASKS) = 2
    /\ CURRENT_TASK_IDX = 1
    /\ saved[1] # None
    /\ regs = saved[1][1]
    /\ TSS_esp0 = kernel_stack[1] + PAGE_SIZE

\* C2: the handler of a timer tick always ends in user mode, and when the
\* task schedule() switched to was preempted before, its registers (EIP,
\* user ESP, EFLAGS, general-purpose registers) are those of its last
\* preemption; with one task, the task preempted is the task resumed.
C2_ResumesSaved ==
    [][(mode = "kernel" /\ handlers = << 32 >>) =>
          /\ mode' = "user"
          /\ saved[CURRENT_TASK_IDX'] # None =>
                 regs' = saved[CURRENT_TASK_IDX'][1]]_vars

\* the only task was preempted after its first system call and runs again
C2_Witness ==
    /\ mode = "user"
    /\ NumTasks(TASKS) = 1
    /\ Len(switched) = 1
    /\ saved[0] # None
    /\ regs = saved[0][1]
    /\ Pc(regs.eip) >= 2
    /\ TASKS[0][1].kernel_sp = kernel_stack[0] + PAGE_SIZE - 80

\* C3: every schedule() moves CURRENT_TASK_IDX to the occupied slot that
\* follows it in cyclic order (from the sentinel: the first occupied slot),
\* and the last k switches, k the number of tasks, went to k different
\* slots, each the cyclic successor of the one before.
C3_RoundRobin ==
    [][switched' # switched =>
          LET occ == {i \in DOMAIN TASKS : TASKS[i] # None}
              Min(S) == CHOOSE i \in S : \A j \in S : i <= j
              Succ(i) == IF \E j \in occ : j > i
                         THEN Min({j \in occ : j > i}) ELSE Min(occ)
          IN  /\ CURRENT_TASK_IDX' = Succ(CURRENT_TASK_IDX)
              /\ switched'[Len(switched')] = CURRENT_TASK_IDX'
              /\ \A n \in 1 .. Len(switched') - 1 :
                     switched'[n + 1] = Succ(switched'[n])
              /\ Len(switched') = Cardinality(occ) =>
                     {switched'[n] : n \in 1 .. Len(switched')} = occ]_vars

\* two ticks after the first schedule(): slot 1, then slot 0 again
C3_Witness ==
    /\ NumTasks(TASKS) = 2
    /\ switched = << 1, 0 >>
    /\ CURRENT_TASK_IDX = 0
    /\ mode = "user"

\* C4: with fair timer ticks, after the first schedule() every registered
\* task is again and again the one running in user mode, unless the system
\* ends in a fatal error; when the two tasks are task1 and task2, the log
\* comes to hold both of their hello lines.
C4_EveryTaskRuns ==
    /\ \A i \in 0 .. MaxBootTasks - 1 :
          [](( mode # "boot" /\ TASKS[i] # None) =>
                <>(\/ mode \in {"halt", "panic_loop", "wild"}
                   \/ mode = "user" /\ CURRENT_TASK_IDX = i))
    /\ (/\ mode # "boot"
        /\ \E i, j \in 0 .. 1 :
              /\ TASKS[i] # None /\ TASKS[i][1].name = TaskName(task1)
              /\ TASKS[j] # None /\ TASKS[j][1].name = TaskName(task2))
          ~> (\/ mode \in {"halt", "panic_loop", "wild"}
              \/ /\ \E n \in DOMAIN log : log[n].bytes = HELLO1
                 /\ \E n \in DOMAIN log : log[n].bytes = HELLO2)

\* task1 and task2 have both written their line, and the second task runs
C4_Witness ==
    /\ mode = "user"
    /\ CURRENT_TASK_IDX = 1
    /\ switched = << 0, 1 >>
    /\ \E n \in DOMAIN log : log[n].bytes = HELLO1
    /\ \E n \in DOMAIN log : log[n].bytes = HELLO2

\* C5 as stated: at most one handler invocation is in progress in every
\* reachable state.
C5_AtMostOneHandler == Len(handlers) <= 1

\* C5: from trap entry to the iretd or the halt EFLAGS.IF is clear, so no
\* timer tick is taken; a second handler starts only for an exception that
\* the code of the first one raises (the page fault of sys_write reading an
\* unmapped buffer), and it ends the system without touching the task
\* array, the index, the bitmap or the shared-mappings table.
C5_NoPreemption ==
    /\ [](handlers # << >> => Bit(regs.eflags, 9) = 0)
    /\ [](Len(handlers) >= 2 =>
             /\ handlers = << 128, 14 >>
             /\ mode \in {"halt", "panic_loop"})
    /\ [][Len(handlers') >= 2 =>
             /\ Len(handlers) = 1
             /\ TASKS' = TASKS
             /\ CURRENT_TASK_IDX' = CURRENT_TASK_IDX
             /\ ALLOCATOR_BITMAP' = ALLOCATOR_BITMAP
             /\ MAPPINGS' = MAPPINGS]_vars

\* the page fault handler has started inside the handler of a write call
C5_Witness ==
    /\ handlers = << 128, 14 >>
    /\ atTrap.eax = 2
    /\ atTrap.ecx = UNMAPPED_PTR
    /\ Bit(regs.eflags, 9) = 0

\* C6: an entry of the shared-mappings table, once set, never changes, and
\* no two entries name the same frame; an mmap_shared(vaddr, id) that
\* returns leaves entry id set, to a frame taken from the allocator by this
\* call when the entry was empty, and the PTE of vaddr in the address space
\* of the caller is that frame with present, writable and user.
C6_SharedFrameOnce ==
    [][/\ \A id \in 0 .. MAX_SHARED_MAPPINGS - 1 :
             MAPPINGS[id] # None => MAPPINGS'[id] = MAPPINGS[id]
       /\ \A i, j \in DOMAIN MAPPINGS' :
             (i # j /\ MAPPINGS'[i] # None) => MAPPINGS'[i] # MAPPINGS'[j]
       /\ (/\ mode = "kernel" /\ handlers = << 128 >>
           /\ atTrap.eax = 10 /\ mode' = "user") =>
              LET id == atTrap.edx
                  Index(page) == (page - BASE_ALLOCATOR) \div PAGE_SIZE
              IN  /\ MAPPINGS'[id] # None
                  /\ MAPPINGS[id] = None =>
                         /\ Index(MAPPINGS'[id][1]) \notin ALLOCATOR_BITMAP
                         /\ Index(MAPPINGS'[id][1]) \in ALLOCATOR_BITMAP'
                  /\ GetPTE(spaces'[cr3'], VPage(atTrap.ecx))
                        = MAPPINGS'[id][1]
                            + PAGE_PRESENT + PAGE_WRITE + PAGE_USER]_vars

\* two address spaces map the frame of id 0, at two different addresses
C6_Witness ==
    /\ MAPPINGS[0] # None
    /\ \E a, b \in DOMAIN spaces :
          /\ a # b
          /\ GetPTE(spaces[a], VPage(SHARED1)) = MAPPINGS[0][1] + 7
          /\ GetPTE(spaces[b], VPage(SHARED2)) = MAPPINGS[0][1] + 7

\* C7: an mmap_shared with an id outside 0 .. 9 halts the kernel and leaves
\* the shared-mappings table, the physical bitmap and every page table as
\* they were.
C7_InvalidIdFatal ==
    [][(/\ mode = "kernel" /\ handlers = << 128 >>
        /\ atTrap.eax = 10
        /\ atTrap.edx \notin 0 .. MAX_SHARED_MAPPINGS - 1) =>
           /\ mode' = "halt"
           /\ MAPPINGS' = MAPPINGS
           /\ ALLOCATOR_BITMAP' = ALLOCATOR_BITMAP
           /\ spaces' = spaces]_vars

\* the call with id 10 has ended in the panic of the bounds check
C7_Witness ==
    /\ mode = "halt"
    /\ atTrap.eax = 10
    /\ atTrap.edx = MAX_SHARED_MAPPINGS
    /\ panicMsg = "index out of bounds"
    /\ \A id \in DOMAIN MAPPINGS : MAPPINGS[id] = None

\* C8 as stated: the handler run is the one that the low byte of EAX names.
C8_LowByteSelects ==
    dispatched # None =>
        LET n == dispatched[1].eax % 256
        IN  /\ n = 1 => dispatched[1].arm = "sys_exit"
            /\ n = 2 => dispatched[1].arm = "sys_write"
            /\ n = 3 => dispatched[1].arm = "sys_print_number"
            /\ n = 10 => dispatched[1].arm = "sys_mmap_shared"

\* C8: the handler run is the one that the whole of EAX names: exit for 1,
\* write for 2, print_number for 3, mmap_shared for 10; for every other
\* value, whatever its low byte, the kernel halts on "Unimplemented
\* syscall".
C8_FullEaxSelects ==
    dispatched # None =>
        LET n == dispatched[1].eax
            arm == dispatched[1].arm
        IN  /\ arm = "sys_exit" <=> n = 1
            /\ arm = "sys_write" <=> n = 2
            /\ arm = "sys_print_number" <=> n = 3
            /\ arm = "sys_mmap_shared" <=> n = 10
            /\ n \notin {1, 2, 3, 10} =>
                   /\ arm = "unimplemented"
                   /\ mode = "halt"
                   /\ panicMsg = "Unimplemented syscall : {:#x}"

\* EAX = 0x102 ended in the panic of the default arm
C8_Witness ==
    /\ dispatched = Some([eax |-> 258, arm |-> "unimplemented"])
    /\ mode = "halt"
    /\ panicMsg = "Unimplemented syscall : {:#x}"

\* C9: a system call that returns resumes the caller with the registers it
\* had at the int 0x80 (general-purpose registers, EIP after the
\* instruction, user ESP, EFLAGS, CS, SS), and leaves CURRENT_TASK_IDX and
\* every task's kernel_sp as they were.
C9_SyscallPreservesContext ==
    [][(mode = "kernel" /\ handlers = << 128 >> /\ mode' = "user") =>
          /\ regs' = atTrap
          /\ CURRENT_TASK_IDX' = CURRENT_TASK_IDX
          /\ TASKS' = TASKS]_vars

\* the caller runs again after an mmap_shared call, EAX still 10
C9_Witness ==
    /\ mode = "user"
    /\ dispatched # None
    /\ dispatched[1].arm = "sys_mmap_shared"
    /\ regs = atTrap
    /\ regs.eax = 10
    /\ AtInt80(regs.eip - 1)

\* C10 as stated: every panic ends with its diagnostic at the end of the
\* serial log and the machine in the halt loop.
C10_FatalEndsInHalt ==
    panicMsg # "" =>
        /\ mode = "halt"
        /\ Len(log) >= 3
        /\ SubSeq(log, Len(log) - 2, Len(log))
             = << Entry("[PANIC] ", 0, << >>), Entry(panicMsg, 0, << >>),
                  Entry("halted!", 0, << >>) >>

\* C11 as stated: every vector other than 0x20 and 0x80 whose handler has run
\* has halted the system, whether user code or kernel code raised it.
C11_OtherVectorsHalt ==
    \A i \in DOMAIN handlers :
        handlers[i] \notin {32, 128} =>
            \/ mode = "halt"
            \/ mode = "kernel" /\ i = Len(handlers)

\* C12: a task's int 0x80 with EAX = 1 ends in the panic "exit syscall" and
\* the halt loop, and no step leaves the halted state: no task runs, no
\* system call is serviced, nothing changes.
C12_ExitHalts ==
    [][/\ (mode = "kernel" /\ handlers = << 128 >> /\ atTrap.eax = 1) =>
              /\ mode' = "halt"
              /\ panicMsg' = "exit syscall"
              /\ log'[Len(log')] = Entry("halted!", 0, << >>)
       /\ mode = "halt" => UNCHANGED vars]_vars

\* the exit call of a task has halted the machine
C12_Witness ==
    /\ mode = "halt"
    /\ panicMsg = "exit syscall"
    /\ dispatched = Some([eax |-> 1, arm |-> "sys_exit"])
    /\ NumTasks(TASKS) = 2

\* C13: the numbers printed by task2 (the print_number lines of the log) are
\* in non-decreasing order, whatever the interleaving of the timer ticks.
C13_PrintedMonotone ==
    \A i, j \in DOMAIN log :
        (/\ i < j
         /\ log[i].text = "{}" /\ log[i].bytes = << >>
         /\ log[j].text = "{}" /\ log[j].bytes = << >>) =>
            log[i].val <= log[j].val

\* task2 has printed 1 and later 2
C13_Witness ==
    \E i, j \in DOMAIN log :
        /\ i < j
        /\ log[i] = Entry("{}", 1, << >>)
        /\ log[j] = Entry("{}", 2, << >>)

\* C14: a call of alloc_phys returns BASE + i * 4096 for the lowest index i
\* whose byte is clear and sets that byte and no other; with no byte clear
\* it panics "Out of memory" and the bitmap is as before.
C14_LowestClear ==
    [][(nsys' = nsys + 1 /\ call'[1].op = "alloc_phys") =>
          IF \A j \in 0 .. (BITMAP_SIZE - 1) : j \in ALLOCATOR_BITMAP
          THEN /\ panicMsg' = "Out of memory"
               /\ mode' = "halt"
               /\ ALLOCATOR_BITMAP' = ALLOCATOR_BITMAP
          ELSE \E i \in 0 .. Cardinality(ALLOCATOR_BITMAP) :
                  /\ i \notin ALLOCATOR_BITMAP
                  /\ \A j \in 0 .. (i - 1) : j \in ALLOCATOR_BITMAP
                  /\ call'[1].ret = BASE_ALLOCATOR + i * PAGE_SIZE
                  /\ ALLOCATOR_BITMAP' = ALLOCATOR_BITMAP \cup {i}
                  /\ panicMsg' = ""]_vars

\* the first frame, freed while the second is in use, is handed out again
C14_Witness ==
    /\ call # None
    /\ call[1].op = "alloc_phys"
    /\ call[1].ret = BASE_ALLOCATOR
    /\ nsys = 4
    /\ ALLOCATOR_BITMAP = {0, 1}
    /\ panicMsg = ""

\* C15: whatever the sequence of calls of the memory interface, direct or
\* through map, map_raw, alloc_virt_pages, free_virt_pages and mmap_shared,
\* alloc_phys never returns a frame that it returned before and that
\* free_phys has not taken back since.
C15_NeverTwice == issued.twice = {}

\* after the boot a frame was obtained, freed, and handed out again
C15_Witness ==
    /\ call # None
    /\ call[1].op = "alloc_phys"
    /\ cr3 # 0
    /\ nsys = 3
    /\ Cardinality(ALLOCATOR_BITMAP) = Cardinality(Booted.bitmap) + 1
    /\ call[1].ret = BASE_ALLOCATOR + Cardinality(Booted.bitmap) * PAGE_SIZE
    /\ call[1].ret \in issued.live
    /\ issued.twice = {}

\* C16: from the all-clear bitmap, once every frame obtained from alloc_phys
\* has been passed to free_phys, in whatever order and however interleaved
\* with the allocations, the bitmap is all clear again.
C16_PairsRestore == (issued.live = {}) => (ALLOCATOR_BITMAP = {})

\* two frames were obtained and freed, the one obtained first freed first
C16_Witness ==
    /\ issued.live = {}
    /\ nsys = 4
    /\ panicMsg = ""
    /\ call[1].op = "free_phys"
    /\ call[1].a = BASE_ALLOCATOR + PAGE_SIZE

\* C17: free_phys panics and leaves the bitmap as it was for an address that
\* is not page-aligned, lies below BASE or at or above BASE + BITMAP_SIZE *
\* 4096, or names a frame whose byte is clear; for an aligned address of the
\* range whose byte is set it clears that byte and no other.  (Addresses
\* from 0x8000_0000 are negative in the representation, hence above the
\* range.)
C17_FreeChecks ==
    [][(nsys' = nsys + 1 /\ call'[1].op = "free_phys") =>
          IF /\ call'[1].a % PAGE_SIZE = 0
             /\ call'[1].a >= BASE_ALLOCATOR
             /\ call'[1].a < BASE_ALLOCATOR + BITMAP_SIZE * PAGE_SIZE
             /\ (call'[1].a - BASE_ALLOCATOR) \div PAGE_SIZE
                   \in ALLOCATOR_BITMAP
          THEN /\ panicMsg' = ""
               /\ ALLOCATOR_BITMAP' = ALLOCATOR_BITMAP
                      \ {(call'[1].a - BASE_ALLOCATOR) \div PAGE_SIZE}
          ELSE /\ panicMsg' # ""
               /\ mode' = "halt"
               /\ ALLOCATOR_BITMAP' = ALLOCATOR_BITMAP]_vars

\* the address one past the last frame was passed, with every frame in use
C17_Witness ==
    /\ call # None
    /\ call[1].op = "free_phys"
    /\ call[1].a = BASE_ALLOCATOR + BITMAP_SIZE * PAGE_SIZE
    /\ mode = "halt"
    /\ Cardinality(ALLOCATOR_BITMAP) = BITMAP_SIZE

\* C18: when alloc_virt_pages(n, ..) has returned v, the walk of the page
\* directory for every page of v .. v + n * 4096 finds a present PDE and a
\* present PTE, and the frame of the PTE is one that alloc_phys handed out
\* and whose byte is set.
C18_MappedAndBacked ==
    (call # None /\ call[1].op = "alloc_virt_pages" /\ panicMsg = "") =>
        \A i \in 0 .. (call[1].n - 1) :
            \E w \in {Walk(Cur, cr3, VPage(call[1].ret + i * PAGE_SIZE))} :
                /\ w.present
                /\ w.frame \in issued.live
                /\ (w.frame - BASE_ALLOCATOR) \div PAGE_SIZE
                      \in ALLOCATOR_BITMAP

\* the third call returned two pages at the start of the window
C18_Witness ==
    /\ call # None
    /\ call[1].op = "alloc_virt_pages"
    /\ call[1].n = 2
    /\ call[1].ret = KERNEL_VMEM_BASE
    /\ nsys = 3
    /\ panicMsg = ""

\* C19: when free_virt_pages(v, n) returns for a range whose n bytes were set
\* in the virtual bitmap (a range alloc_virt_pages returned), the byte of
\* every frame that backed a page of the range is clear in the physical
\* bitmap, the n bytes of the range are clear in the virtual bitmap, and
\* every other byte of the virtual bitmap is as before.
C19_FreeVirtReleases ==
    [][(nsys' = nsys + 1 /\ call'[1].op = "free_virt_pages"
          /\ panicMsg' = "") =>
        \A fr \in {get_paddr(GetPTE(spaces[cr3],
                                    VPage(KERNEL_VMEM_ALLOCATOR_BITMAP)))} :
         \A first \in {(call'[1].a - KERNEL_VMEM_BASE) \div PAGE_SIZE} :
          (\A i \in 0 .. (call'[1].n - 1) :
              (first + i) \in DOMAIN MemOf(Cur, fr)) =>
            /\ \A i \in 0 .. (call'[1].n - 1) :
                  (Walk(Cur, cr3, VPage(call'[1].a + i * PAGE_SIZE)).frame
                     - BASE_ALLOCATOR) \div PAGE_SIZE
                       \notin ALLOCATOR_BITMAP'
            /\ \A j \in (DOMAIN MemOf(Cur, fr))
                        \cup (first .. (first + call'[1].n - 1)) :
                  Get(IF fr \in DOMAIN mem' THEN mem'[fr] ELSE EmptyMap, j)
                    = IF j \in first .. (first + call'[1].n - 1) THEN 0
                      ELSE Get(MemOf(Cur, fr), j)
            /\ DOMAIN (IF fr \in DOMAIN mem' THEN mem'[fr] ELSE EmptyMap)
                  \subseteq DOMAIN MemOf(Cur, fr)]_vars

\* the two pages allocated second were freed and the page allocated first
\* is still marked in the virtual bitmap
C19_Witness ==
    /\ call # None
    /\ call[1].op = "free_virt_pages"
    /\ call[1].a = KERNEL_VMEM_BASE + PAGE_SIZE
    /\ call[1].n = 2
    /\ panicMsg = ""
    /\ nsys = 3
    /\ DOMAIN MemOf(Cur, get_paddr(GetPTE(spaces[cr3],
                                          VPage(KERNEL_VMEM_ALLOCATOR_BITMAP))))
         = {0}

\* C20 as stated: free_virt_pages(addr, n) panics whenever a page of the
\* range has a PDE or a PTE whose present bit is clear, and frees the frame
\* of no such page, also when the address bits of the PTE name a frame in
\* use.
C20_NonPresentFatal ==
    [][(nsys' = nsys + 1 /\ call'[1].op = "free_virt_pages") =>
        \A i \in 0 .. (call'[1].n - 1) :
            \A w \in {Walk(Cur, cr3, VPage(call'[1].a + i * PAGE_SIZE))} :
                (~ w.present) =>
                    /\ panicMsg' # ""
                    /\ ((w.frame - BASE_ALLOCATOR) \div PAGE_SIZE
                          \in ALLOCATOR_BITMAP) =>
                       ((w.frame - BASE_ALLOCATOR) \div PAGE_SIZE
                          \in ALLOCATOR_BITMAP')]_vars

\* C21: when the walk of translate(vaddr) reaches an entry that is not
\* present, the components behind it are reported absent: with the page
\* directory entry not present the page-table-entry and frame components
\* are None, with only the page table entry not present the frame component
\* is None.
C21_AbsentReported ==
    (call # None /\ call[1].op = "translate" /\ panicMsg = "")
    => \A pde \in {Get(spaces[cr3].pde, VPage(call[1].a) \div 1024)} :
          /\ pde % 2 = 0
               => call[1].ret.pte = None /\ call[1].ret.page = None
          /\ (pde % 2 = 1 /\ GetPTE(spaces[cr3], VPage(call[1].a)) % 2 = 0)
               => call[1].ret.page = None

\* C22: for a mapped vaddr, translate returns the address of the page
\* directory entry (directory base + 4 * bits 22..31), the address of the
\* page table entry (table base + 4 * bits 12..21) and the frame base
\* stored in that entry.
C22_Components ==
    (/\ call # None /\ call[1].op = "translate" /\ panicMsg = ""
     /\ Walk(Cur, cr3, VPage(call[1].a)).present)
    => /\ call[1].ret.pde = Some(cr3 + (VPage(call[1].a) \div 1024) * 4)
       /\ call[1].ret.pte =
            Some(get_paddr(Get(spaces[cr3].pde, VPage(call[1].a) \div 1024))
                 + (VPage(call[1].a) % 1024) * 4)
       /\ call[1].ret.page =
            Some(get_paddr(GetPTE(spaces[cr3], VPage(call[1].a))))

\* C23: a map_raw(vaddr, raw) that returns allocates a page table, zeroed
\* and installed as base | present | writable | user, only when the page
\* directory entry of vaddr is not present, overwrites only the page table
\* entry of vaddr, and, repeated with the same arguments, leaves the
\* directory, the tables and the physical bitmap as the first call left
\* them.
C23_MapRawIdempotent ==
    [][(nsys' = nsys + 1 /\ call'[1].op = "map_raw" /\ panicMsg' = "")
       => \A vp \in {VPage(call'[1].a)} :
          \A pde \in {Get(spaces[cr3].pde, vp \div 1024)} :
             /\ pde % 2 = 1
                  => /\ ALLOCATOR_BITMAP' = ALLOCATOR_BITMAP
                     /\ spaces'[cr3].pde = spaces[cr3].pde
             /\ pde % 2 = 0
                  => \E i \in ALLOCATOR_BITMAP' \ ALLOCATOR_BITMAP :
                        /\ ALLOCATOR_BITMAP' = ALLOCATOR_BITMAP \cup {i}
                        /\ MemOf(Cur', BASE_ALLOCATOR + i * PAGE_SIZE)
                             = EmptyMap
                        /\ spaces'[cr3].pde =
                             Put(spaces[cr3].pde, vp \div 1024,
                                 BASE_ALLOCATOR + i * PAGE_SIZE
                                   + PAGE_PRESENT + PAGE_WRITE + PAGE_USER)
             /\ GetPTE(spaces'[cr3], vp) = call'[1].ret
             /\ \A q \in ((DOMAIN spaces[cr3].pte)
                           \cup (DOMAIN spaces'[cr3].pte)) \ {vp} :
                   GetPTE(spaces'[cr3], q) = GetPTE(spaces[cr3], q)
             /\ spaces'[cr3].idmap = spaces[cr3].idmap
             /\ \A p \in (DOMAIN spaces) \ {cr3} :
                   p \in DOMAIN spaces' /\ spaces'[p] = spaces[p]
             /\ (/\ call # None /\ call[1].op = "map_raw"
                 /\ call[1].a = call'[1].a /\ call[1].ret = call'[1].ret)
                  => /\ spaces' = spaces
                     /\ ALLOCATOR_BITMAP' = ALLOCATOR_BITMAP
                     /\ mem' = mem]_vars

\* two pages under the same page directory entry were mapped by two map_raw
\* calls after boot: one page table was allocated, by the first
C23_Witness ==
    /\ nsys = 2 /\ panicMsg = ""
    /\ call # None /\ call[1].op = "map_raw"
    /\ {VPage(KERNEL_VMEM_BASE), VPage(KERNEL_VMEM_BASE) + 1}
         \subseteq DOMAIN spaces[cr3].pte
    /\ Cardinality(ALLOCATOR_BITMAP) = Cardinality(Booted.bitmap) + 1

\* C24: once a task is created, and whatever system calls are made, every
\* page of the first 128 MiB is mapped present to the frame of the same
\* address, in the space of every task and in the kernel space.
C24_IdentityKept ==
    \A p \in {Booted.cr3}
              \cup {TASKS[i][1].vspace :
                      i \in {j \in 0 .. MAX_TASKS - 1 : TASKS[j] # None}} :
       /\ spaces[p].idmap
       /\ \A vp \in DOMAIN spaces[p].pte :
             vp < KERNEL_PHYS_WINDOW_SIZE \div PAGE_SIZE
             => /\ spaces[p].pte[vp] % 2 = 1
                /\ get_paddr(spaces[p].pte[vp]) = vp * PAGE_SIZE
       /\ \A i \in 0 .. (KERNEL_PHYS_WINDOW_SIZE \div PAGE_SIZE) \div 1024 - 1 :
             Get(spaces[p].pde, i) % 2 = 1

\* C25: PhysMem::translate(paddr, size) is fatal for every region that is
\* not inside the first 128 MiB, the regions whose end passes 2^32 included,
\* and returns paddr + KERNEL_PHYS_WINDOW_BASE for the others.
C25_WindowChecked ==
    (call # None /\ call[1].op = "PhysMem::translate")
    => IF call[1].a >= 0 /\ call[1].a <= KERNEL_PHYS_WINDOW_SIZE - call[1].n
       THEN panicMsg = ""
            /\ call[1].ret = call[1].a + KERNEL_PHYS_WINDOW_BASE
       ELSE panicMsg # ""

\* C26 as stated: alloc_virt_pages(n, ..) picks the lowest index of a run of
\* n clear bytes of the virtual bitmap, sets exactly those bytes and returns
\* KERNEL_VMEM_BASE + index * 4096; it is fatal, with the bitmap, the page
\* tables and the physical bitmap unchanged, exactly when there is no such
\* run.
C26_FatalOnlyWithoutRun ==
    [][(nsys' = nsys + 1 /\ call'[1].op = "alloc_virt_pages") =>
        \A fr \in {get_paddr(GetPTE(spaces[cr3],
                                    VPage(KERNEL_VMEM_ALLOCATOR_BITMAP)))} :
         \A runs \in {{i \in {0} \cup {j + 1 : j \in DOMAIN MemOf(Cur, fr)} :
                          /\ i + call'[1].n <= PAGE_SIZE
                          /\ \A j \in i .. (i + call'[1].n - 1) :
                                j \notin DOMAIN MemOf(Cur, fr)}} :
            IF runs = {}
            THEN /\ panicMsg' # ""
                 /\ mem' = mem /\ spaces' = spaces
                 /\ ALLOCATOR_BITMAP' = ALLOCATOR_BITMAP
            ELSE /\ panicMsg' = ""
                 /\ \E i \in runs :
                       /\ \A j \in runs : i <= j
                       /\ call'[1].ret = KERNEL_VMEM_BASE + i * PAGE_SIZE
                       /\ MemOf(Cur', fr) =
                            [j \in (DOMAIN MemOf(Cur, fr))
                                     \cup (i .. (i + call'[1].n - 1)) |-> 1]
       ]_vars

\* C26: alloc_virt_pages(n, ..) is fatal with the bitmap, the page tables
\* and the physical bitmap unchanged when the virtual bitmap has no run of n
\* clear bytes.  Otherwise it sets exactly the n bytes of the lowest run
\* and, when it returns, returns KERNEL_VMEM_BASE + index * 4096; it is
\* fatal here too, with the bytes already set, when the physical allocator
\* runs out of frames while the pages are mapped.
C26_LowestRun ==
    [][(nsys' = nsys + 1 /\ call'[1].op = "alloc_virt_pages") =>
        \A fr \in {get_paddr(GetPTE(spaces[cr3],
                                    VPage(KERNEL_VMEM_ALLOCATOR_BITMAP)))} :
         \A runs \in {{i \in {0} \cup {j + 1 : j \in DOMAIN MemOf(Cur, fr)} :
                          /\ i + call'[1].n <= PAGE_SIZE
                          /\ \A j \in i .. (i + call'[1].n - 1) :
                                j \notin DOMAIN MemOf(Cur, fr)}} :
            IF runs = {}
            THEN /\ panicMsg' # ""
                 /\ mem' = mem /\ spaces' = spaces
                 /\ ALLOCATOR_BITMAP' = ALLOCATOR_BITMAP
            ELSE /\ \E i \in runs :
                       /\ \A j \in runs : i <= j
                       /\ panicMsg' = ""
                            => call'[1].ret = KERNEL_VMEM_BASE + i * PAGE_SIZE
                       /\ MemOf(Cur', fr) =
                            [j \in (DOMAIN MemOf(Cur, fr))
                                     \cup (i .. (i + call'[1].n - 1)) |-> 1]
                 /\ panicMsg' # ""
                      => /\ panicMsg' = "Out of memory"
                         /\ Cardinality(ALLOCATOR_BITMAP') = BITMAP_SIZE
       ]_vars

\* with every frame handed out, a call for one page has set the first byte
\* of the virtual bitmap and has then failed in the physical allocator
C26_Witness ==
    /\ call # None /\ call[1].op = "alloc_virt_pages" /\ call[1].n = 1
    /\ panicMsg = "Out of memory"
    /\ 0 \in DOMAIN MemOf(Cur, get_paddr(GetPTE(spaces[cr3],
                                VPage(KERNEL_VMEM_ALLOCATOR_BITMAP))))

\* C27: the first switch to a task that has not run yet, from rust_main or
\* from the timer handler, arrives in ring 3 at the task's entry function
\* with CS = 0x18|3, SS = 0x20|3, ESP = the top of its user stack,
\* EFLAGS = 0x200, every general-purpose register zero, the data segment
\* registers 0x20|3 and CR3 = the task's page directory.
C27_FreshTaskEntry ==
    [][(/\ mode = "boot" \/ (mode = "kernel" /\ handlers = << 32 >>)
        /\ panicMsg' = ""
        /\ CURRENT_TASK_IDX' # CURRENT_TASK_IDX
        /\ saved[CURRENT_TASK_IDX'] = None)
       => \A t \in {TASKS'[CURRENT_TASK_IDX'][1]} :
            /\ mode' = "user"
            /\ regs' = [edi |-> 0, esi |-> 0, ebp |-> 0, ebx |-> 0,
                        edx |-> 0, ecx |-> 0, eax |-> 0,
                        eip |-> CHOOSE e \in EntryFns : TaskName(e) = t.name,
                        cs |-> 27, eflags |-> 512, esp |-> t.user_sp,
                        ss |-> 35]
            /\ ds' = 35
            /\ cr3' = t.vspace
            /\ \E w \in {Walk(Cur', t.vspace, VPage(t.user_sp - 4))} :
                  w.present /\ w.user /\ w.write
            /\ PageOff(t.user_sp) = 0]_vars

\* the second task is running for the first time, entered from the timer
\* handler while the first task was in user code
C27_Witness ==
    /\ mode = "user" /\ CURRENT_TASK_IDX = 1
    /\ saved[0] # None /\ saved[1] = None
    /\ regs.eip = task2 /\ regs.eax = 0

\* C28: Task::new puts the task in the empty slot of lowest index and
\* leaves the other slots as they were; with the ten slots taken it is
\* fatal ("Too many running tasks") and leaves the array as it was; with a
\* name of more than 16 bytes it is fatal before a frame is allocated.
C28_LowestEmptySlot ==
    [][(mode = "boot" /\ call' # None /\ call'[1].op = "Task::new")
       => \A e \in {{i \in 0 .. MAX_TASKS - 1 : TASKS[i] = None}} :
            IF call'[1].n > 16
            THEN /\ panicMsg' = "Task name len > 16"
                 /\ ALLOCATOR_BITMAP' = ALLOCATOR_BITMAP
                 /\ TASKS' = TASKS
            ELSE IF e = {}
            THEN /\ panicMsg' = "Too many running tasks"
                 /\ TASKS' = TASKS
            ELSE /\ panicMsg' = ""
                 /\ \E spot \in e :
                       /\ \A j \in e : spot <= j
                       /\ TASKS'[spot] # None
                       /\ TASKS'[spot][1].name = TaskName(call'[1].a)
                       /\ \A j \in (0 .. MAX_TASKS - 1) \ {spot} :
                             TASKS'[j] = TASKS[j]]_vars

\* the eleventh creation has failed with the ten slots taken
C28_Witness ==
    /\ panicMsg = "Too many running tasks"
    /\ \A i \in 0 .. MAX_TASKS - 1 : TASKS[i] # None
    /\ TASKS[9][1].name = TaskName(task2)

\* C29: the first schedule(), entered from rust_main with the index at
\* usize::MAX and a task in slot 0, does not fail: (usize::MAX + 1) mod 10
\* selects slot 0, the previous and the next task are both the task of
\* slot 0, and the kernel_sp of no task is overwritten with the pointer
\* into the boot stack.
C29_FirstSchedule ==
    [][(/\ mode = "boot" /\ mode' # "boot"
        /\ CURRENT_TASK_IDX = USIZE_MAX /\ TASKS[0] # None)
       => /\ panicMsg' = ""
          /\ CURRENT_TASK_IDX' = 0
          /\ switched' = << 0 >>
          /\ TASKS' = TASKS
          /\ cr3' = TASKS[0][1].vspace
          /\ mode' = "user"]_vars

\* two tasks were created and the first schedule() has entered the first
C29_Witness ==
    /\ mode = "user" /\ CURRENT_TASK_IDX = 0
    /\ TASKS[1] # None
    /\ \A i \in 0 .. MAX_TASKS - 1 : saved[i] = None
    /\ switched = << 0 >>
    /\ regs.eip \in EntryFns

\* C30: the handler of every timer tick writes the end-of-interrupt command
\* to the master PIC before schedule() switches: one command per tick has
\* been written when the handler step ends, also when the switch enters a
\* task that has not run yet and never returns into this invocation.
C30_EoiOncePerTick ==
    [][(/\ mode = "kernel" /\ handlers # << >>
        /\ handlers[Len(handlers)] = 32)
       => eoi = 0 /\ eoi' = 1]_vars

\* the handler of the first tick has switched to the second task, which had
\* not run, and the command of that tick was written
C30_Witness ==
    /\ mode = "user" /\ CURRENT_TASK_IDX = 1
    /\ saved[0] # None /\ saved[1] = None
    /\ regs.eip \in EntryFns
    /\ eoi = 1

\* C31: after every trap from ring 3 the entry stub has loaded the kernel
\* data selector 0x10 into the data segment registers when the common
\* handler runs: handler code never runs with the user selector 0x20|3.
C31_KernelDataSelector ==
    (mode = "kernel" /\ handlers # << >>) => ds = 16

\* C32: the page table entry that Task::new installs for the entry code of
\* a task maps the page of the entry address to the frame of the same page
\* base with exactly the flags present and user: the low 12 bits of the
\* entry address add no flag bit.
C32_EntryPteFlags ==
    \A i \in {j \in 0 .. MAX_TASKS - 1 : TASKS[j] # None} :
       \A e \in {CHOOSE f \in EntryFns : TaskName(f) = TASKS[i][1].name} :
          GetPTE(spaces[TASKS[i][1].vspace], VPage(e))
            = VPage(e) * PAGE_SIZE + PAGE_USER + PAGE_PRESENT

\* C33: free_virt_pages(addr, n) frees no frame when some page of the range
\* is not marked allocated in the bitmap of the space; a second
\* free_virt_pages of a range does not free a frame of that range which
\* alloc_phys has handed out again.
C33_FreeChecksBitmap ==
    [][(nsys' = nsys + 1 /\ call'[1].op = "free_virt_pages") =>
        \A fr \in {get_paddr(GetPTE(spaces[cr3],
                                    VPage(KERNEL_VMEM_ALLOCATOR_BITMAP)))} :
         \A first \in {VPage(Sub32(call'[1].a, KERNEL_VMEM_BASE))} :
            (\E i \in 0 .. (call'[1].n - 1) :
                (first + i) \notin DOMAIN MemOf(Cur, fr))
            => /\ ALLOCATOR_BITMAP' = ALLOCATOR_BITMAP
               /\ issued'.live = issued.live]_vars

\* C34: in the space of every task, whatever system calls were made, the
\* page of the kernel stack and the page of the bitmap are mapped
\* supervisor-only on frames the allocator handed out, and the only pages
\* a user access is allowed on are the user stack, the page of the entry
\* code and pages that mmap_shared mapped outside the identity window, the
\* allocator's window and the bitmap page.
C34_KernelPagesProtected ==
    \A i \in {j \in 0 .. MAX_TASKS - 1 : TASKS[j] # None} :
       \A t \in {TASKS[i][1]} :
          /\ \A vp \in {VPage(kernel_stack[i]),
                         VPage(KERNEL_VMEM_ALLOCATOR_BITMAP)} :
                \E w \in {Walk(Cur, t.vspace, vp)} :
                   w.present /\ ~ w.user /\ w.frame \in issued.live
          /\ \A vp \in DOMAIN spaces[t.vspace].pte :
                (Walk(Cur, t.vspace, vp).present
                   /\ Walk(Cur, t.vspace, vp).user)
                => \/ vp = VPage(t.user_sp - PAGE_SIZE)
                   \/ vp = VPage(CHOOSE f \in EntryFns :
                                   TaskName(f) = t.name)
                   \/ /\ vp >= KERNEL_PHYS_WINDOW_SIZE \div PAGE_SIZE
                      /\ ~ (vp >= VPage(KERNEL_VMEM_BASE)
                            /\ vp < VPage(KERNEL_VMEM_BASE) + PAGE_SIZE)
                      /\ vp # VPage(KERNEL_VMEM_ALLOCATOR_BITMAP)

\* C35: the occupied slots of the task array are a prefix of the array;
\* once schedule() has run, the current-task index is below 10 and names an
\* occupied slot; with a task registered, the search of schedule() from the
\* current index finds an occupied slot within 10 increments.
C35_IndexNamesTask ==
    /\ \A i \in 1 .. MAX_TASKS - 1 : TASKS[i] # None => TASKS[i - 1] # None
    /\ CURRENT_TASK_IDX # USIZE_MAX
         => /\ CURRENT_TASK_IDX \in 0 .. 9
            /\ TASKS[CURRENT_TASK_IDX] # None
    /\ NumTasks(TASKS) >= 1
         => \E n \in {NextTaskIdx(TASKS, CURRENT_TASK_IDX, 10)} :
               n \in 0 .. 9 /\ TASKS[n] # None

\* the only task was preempted and entered again: the search went through
\* the nine empty slots and came back to slot 0
C35_Witness ==
    /\ NumTasks(TASKS) = 1 /\ mode = "user"
    /\ CURRENT_TASK_IDX = 0 /\ saved[0] # None
    /\ regs = saved[0][1]

\* C36: the allocator's range ends inside the identity window
\* (BASE_ALLOCATOR + BITMAP_SIZE * 4096 <= 128 MiB): every frame alloc_phys
\* returns, and so every page directory, page table and bitmap frame, lies
\* inside the window, and no access that map_raw, map or translate makes
\* through PhysMem::translate fails its window check.
C36_FramesInWindow ==
    /\ BASE_ALLOCATOR + BITMAP_SIZE * PAGE_SIZE <= KERNEL_PHYS_WINDOW_SIZE
    /\ (call # None /\ call[1].op = "alloc_phys" /\ panicMsg = "")
         => /\ call[1].ret >= 0
            /\ call[1].ret + PAGE_SIZE <= KERNEL_PHYS_WINDOW_SIZE
    /\ \A f \in TableFrames(Cur) :
          f >= 0 /\ f + PAGE_SIZE <= KERNEL_PHYS_WINDOW_SIZE
    /\ panicMsg # "Trying to translate paddr"

\* the last frame of the allocator's range serves as the page table of the
\* allocator's window, and map_raw has written an entry into it
C36_Witness ==
    /\ call # None /\ call[1].op = "map_raw" /\ panicMsg = ""
    /\ cr3 # 0
    /\ get_paddr(Get(spaces[cr3].pde, VPage(KERNEL_VMEM_BASE) \div 1024))
         = BASE_ALLOCATOR + (BITMAP_SIZE - 1) * PAGE_SIZE

\* C37: in one address space, after alloc_virt_pages calls and
\* free_virt_pages calls on allocated pages, every range that
\* alloc_virt_pages returns lies inside the allocator's window, was free of
\* live pages and is live afterwards, and no two live pages are backed by
\* the same frame.
C37_LiveRangesDisjoint ==
    /\ [](\A fr \in {IF cr3 = 0 THEN 0
                      ELSE Walk(Cur, cr3,
                                VPage(KERNEL_VMEM_ALLOCATOR_BITMAP)).frame} :
            (cr3 # 0 /\ panicMsg = "")
            => \A i \in DOMAIN MemOf(Cur, fr) :
                  /\ i \in 0 .. PAGE_SIZE - 1
                  /\ Walk(Cur, cr3, VPage(KERNEL_VMEM_BASE) + i).present
                  /\ \A j \in (DOMAIN MemOf(Cur, fr)) \ {i} :
                        Walk(Cur, cr3, VPage(KERNEL_VMEM_BASE) + i).frame
                          # Walk(Cur, cr3, VPage(KERNEL_VMEM_BASE) + j).frame)
    /\ [][(nsys' = nsys + 1 /\ call'[1].op = "alloc_virt_pages"
            /\ panicMsg' = "")
          => \A fr \in {Walk(Cur, cr3,
                              VPage(KERNEL_VMEM_ALLOCATOR_BITMAP)).frame} :
             \A first \in {(call'[1].ret - KERNEL_VMEM_BASE)
                              \div PAGE_SIZE} :
                /\ call'[1].ret >= KERNEL_VMEM_BASE
                /\ call'[1].ret + call'[1].n * PAGE_SIZE
                     <= KERNEL_VMEM_BASE + PAGE_SIZE * PAGE_SIZE
                /\ \A i \in first .. (first + call'[1].n - 1) :
                      /\ i \notin DOMAIN MemOf(Cur, fr)
                      /\ i \in DOMAIN MemOf(Cur', fr)]_vars

\* the first of two pages was freed and allocated again, next to the
\* second, which stayed live
C37_Witness ==
    /\ nsys = 3 /\ panicMsg = ""
    /\ call # None /\ call[1].op = "alloc_virt_pages"
    /\ call[1].n = 1 /\ call[1].ret = KERNEL_VMEM_BASE
    /\ DOMAIN MemOf(Cur, Walk(Cur, cr3,
                              VPage(KERNEL_VMEM_ALLOCATOR_BITMAP)).frame)
         = {0, 1}

\* C38: no present page table entry of the allocator's window names a
\* frame that the physical allocator marks free: free_virt_pages leaves the
\* entries of the freed range not present.
C38_NoStaleEntry ==
    (cr3 # 0 /\ panicMsg = "")
    => \A vp \in DOMAIN spaces[cr3].pte :
          (/\ vp >= VPage(KERNEL_VMEM_BASE)
           /\ vp < VPage(KERNEL_VMEM_BASE) + PAGE_SIZE
           /\ Walk(Cur, cr3, vp).present)
          => (Walk(Cur, cr3, vp).frame - BASE_ALLOCATOR) \div PAGE_SIZE
                \in ALLOCATOR_BITMAP

\* C39: alloc_virt_pages and every access to the bitmap of a VirtMem run
\* with the page directory of that VirtMem loaded in CR3: the bytes that
\* Task::new marks are bytes of the bitmap of the new space, whose page
\* tables receive the mappings, and no step, of Task::new or of a system
\* call, changes a byte of the bitmap of another space.
C39_OwnBitmapOnly ==
    [][/\ \A p \in DOMAIN spaces :
             /\ p \in DOMAIN spaces'
             /\ \A fr \in {get_paddr(GetPTE(spaces[p],
                               VPage(KERNEL_VMEM_ALLOCATOR_BITMAP)))} :
                   /\ MemOf(Cur', fr) = MemOf(Cur, fr)
                   /\ get_paddr(GetPTE(spaces'[p],
                               VPage(KERNEL_VMEM_ALLOCATOR_BITMAP))) = fr
       /\ panicMsg' = ""
            => \A p \in (DOMAIN spaces') \ (DOMAIN spaces) :
                  /\ DOMAIN MemOf(Cur', get_paddr(GetPTE(spaces'[p],
                               VPage(KERNEL_VMEM_ALLOCATOR_BITMAP))))
                       = {0, 1}
                  /\ \A i \in {0, 1} :
                        Walk(Cur', p, VPage(KERNEL_VMEM_BASE) + i).present
                  /\ cr3' = cr3]_vars

\* two tasks were created: the bitmap of each of their spaces has the two
\* bytes of its stacks set and the bitmap of the kernel space has none
C39_Witness ==
    /\ mode = "boot" /\ NumTasks(TASKS) = 2
    /\ \A i \in {0, 1} :
          DOMAIN MemOf(Cur, get_paddr(GetPTE(spaces[TASKS[i][1].vspace],
                              VPage(KERNEL_VMEM_ALLOCATOR_BITMAP)))) = {0, 1}
    /\ MemOf(Cur, get_paddr(GetPTE(spaces[cr3],
                              VPage(KERNEL_VMEM_ALLOCATOR_BITMAP)))) = EmptyMap
    /\ TASKS[0][1].vspace # TASKS[1][1].vspace

====
